---- MODULE Spec2Model ----
(***************************************************************************)
(* Model of the Ecobici prediction API: the GBFS feed cache (gbfs.py),     *)
(* the XGBoost predictor (predictor.py), the snapshot collector            *)
(* (collector.py) and the request handlers (routes.py).                    *)
(*                                                                         *)
(* Times are minutes of Mexico City civil time counted from 00:00 of day   *)
(* 0 (the zone has a fixed UTC-6 offset, so a UTC instant and its local    *)
(* time differ by a constant).  Occupancies are fractions with the common  *)
(* denominator OcuScale, or one of the IEEE values NaN, +inf, -inf.        *)
(***************************************************************************)
EXTENDS Integers, Sequences, FiniteSets, TLC

VARIABLES
    clock,              \* current time, minutes since 00:00 of day 0 (local)
    phase,              \* "startup" until lifespan has called load_models
    xgboost_models,     \* PredictorService._xgboost_models: horizons held
    models_loaded,      \* PredictorService._models_loaded
    store,              \* rows of the per-day snapshot parquet files
    parquet_cache,      \* lru_cache of _load_parquet_cached: date -> rows
    saves,              \* number of snapshots the collector has saved
    gbfs,               \* GBFSService: the two caches, the map, the timestamps
    wall,               \* datetime.now(timezone.utc), in seconds
    fetched_at,         \* history: when each feed was last fetched and stored
    raw_snapshots,      \* LagsService: the station_status.json files on disk
    tables,             \* PredictorService: holidays_df and the two tables
    scheduler,          \* scheduler.py: the AsyncIOScheduler and its jobs
    gbfs_collector,     \* GBFSCollector: the setting and the HTTP client
    feedback_rate_limit, \* routes.py: client IP -> times of its requests
    feedback_log,       \* history: the feedback requests and their answers
    tasks,              \* the cache refreshes that await their fetch
    statistics,         \* StatisticsService: path, buffer, files, flush task
    history_cache,      \* HistoryService: the directories under the cache path
    last                \* the last operation and what it returned

vars == <<clock, phase, xgboost_models, models_loaded, store, parquet_cache,
          saves, gbfs, wall, fetched_at, raw_snapshots, tables, scheduler,
          gbfs_collector, feedback_rate_limit, feedback_log, tasks,
          statistics, history_cache, last>>

\* the state of the feedback endpoint and of the refreshes in flight
\* the state of the statistics service and of the history cache
disk == <<statistics, history_cache>>

aside == <<feedback_rate_limit, feedback_log, tasks, disk>>

\* the state of the feed cache, which the predictor and the collector do not
\* touch
feed == <<gbfs, wall, fetched_at>>

---------------------------------------------------------------------------
(* Bounds of the model *)

MaxCap == 2         \* largest station capacity served by the feed
MaxBikes == 1       \* largest bike count served by the feed
MaxSaves == 1       \* snapshots the collector saves in one run
MaxFileSaves == 3   \* snapshots the collector saves when only it runs

(* Program constants *)

SUCCESS == 0
STATION_NOT_FOUND == 1
INSUFFICIENT_DATA == 2
MODEL_NOT_LOADED == 3
INVALID_FEATURES == 4

DefaultCapacity == 20
ToleranceMin == 5
MinutesPerDay == 24 * 60

Horizons == {20, 40, 60}
HorizonSeq == <<20, 40, 60>>
LagMinutes == <<0, 10, 20, 60, 120, 1380, 1440>>
LagNames == <<"ocu", "ocu_lag_1", "ocu_lag_2", "ocu_lag_6", "ocu_lag_12",
              "ocu_lag_138", "ocu_lag_144">>

Caps == 0..MaxCap
Bikes == 0..MaxBikes

RECURSIVE Factorial(_)
Factorial(n) == IF n <= 1 THEN 1 ELSE n * Factorial(n - 1)

\* common denominator of the occupancies bikes/capacity of the model
OcuScale == Factorial(MaxCap)

---------------------------------------------------------------------------
(* Floating-point values: a finite fraction n/OcuScale, NaN, +inf, -inf,   *)
(* and Python's None.                                                      *)

Fin(n) == [k |-> "fin", v |-> n]
NaN == [k |-> "nan", v |-> 0]
PInf == [k |-> "inf", v |-> 0]
NInf == [k |-> "ninf", v |-> 0]
None == [k |-> "none", v |-> 0]

IsNaN(x) == x.k = "nan"
IsFinite(x) == x.k = "fin"

Abs(n) == IF n < 0 THEN -n ELSE n
Min2(a, b) == IF a < b THEN a ELSE b
Max2(a, b) == IF a > b THEN a ELSE b

\* float subtraction x - y
FSub(x, y) ==
    IF IsNaN(x) \/ IsNaN(y) THEN NaN
    ELSE IF IsFinite(x) /\ IsFinite(y) THEN Fin(x.v - y.v)
    ELSE IF IsFinite(x) THEN (IF y.k = "inf" THEN NInf ELSE PInf)
    ELSE IF IsFinite(y) THEN x
    ELSE IF x.k = y.k THEN NaN ELSE x

\* float addition x + y
FAdd(x, y) ==
    IF IsNaN(x) \/ IsNaN(y) THEN NaN
    ELSE IF IsFinite(x) /\ IsFinite(y) THEN Fin(x.v + y.v)
    ELSE IF IsFinite(x) THEN y
    ELSE IF IsFinite(y) THEN x
    ELSE IF x.k = y.k THEN x ELSE NaN

\* np.clip(x, 0, 1)
Clip01(x) ==
    CASE x.k = "nan" -> NaN
      [] x.k = "inf" -> Fin(OcuScale)
      [] x.k = "ninf" -> Fin(0)
      [] OTHER -> Fin(Max2(0, Min2(x.v, OcuScale)))

\* np.round(n / d) for n >= 0, d > 0: round half to even
RoundHalfEven(n, d) ==
    LET q == n \div d
        r == n % d
    IN  IF 2 * r < d THEN q
        ELSE IF 2 * r > d THEN q + 1
        ELSE IF q % 2 = 0 THEN q ELSE q + 1

\* df["bikes_available"] / df["capacity"] (pandas: x/0 is inf, 0/0 is NaN)
Ocu(bikes, cap) ==
    IF cap = 0 THEN (IF bikes = 0 THEN NaN ELSE PInf)
    ELSE Fin((bikes * OcuScale) \div cap)

---------------------------------------------------------------------------
(* Time *)

DateOf(t) == t \div MinutesPerDay
HourOf(t) == (t % MinutesPerDay) \div 60
MinuteOf(t) == t % 60

\* a window check that forgets the minute: the whole hour after midnight
IsOperatingAtTimeAnyMinute(t) == (HourOf(t) >= 5) \/ (HourOf(t) = 0)

\* PredictorService._is_operating_at_time
IsOperatingAtTime(t) ==
    (HourOf(t) >= 5) \/ (HourOf(t) = 0 /\ MinuteOf(t) <= 30)

---------------------------------------------------------------------------
(* Station codes are strings of decimal digits, modelled as sequences.     *)

RECURSIVE LStripZeros(_)
LStripZeros(c) ==
    IF c # <<>> /\ Head(c) = 0 THEN LStripZeros(Tail(c)) ELSE c

\* station_code.lstrip("0") or "0"
Stripped(c) == IF LStripZeros(c) = <<>> THEN <<0>> ELSE LStripZeros(c)

RECURSIVE ZFill(_, _)
\* station_code.zfill(width)
ZFill(c, width) == IF Len(c) >= width THEN c ELSE ZFill(<<0>> \o c, width)

\* dict.get(key, default)
DictGet(d, key, default) == IF key \in DOMAIN d THEN d[key] ELSE default

\* a resolution that tries the stripped form before the padded one
ResolveStationIdStrippedFirst(short_name_to_id, station_code) ==
    IF station_code \in DOMAIN short_name_to_id
    THEN short_name_to_id[station_code]
    ELSE IF Stripped(station_code) \in DOMAIN short_name_to_id
    THEN short_name_to_id[Stripped(station_code)]
    ELSE IF ZFill(station_code, 3) \in DOMAIN short_name_to_id
    THEN short_name_to_id[ZFill(station_code, 3)]
    ELSE "None"

\* GBFSService._resolve_station_id; None when no form of the code is a key
ResolveStationId(short_name_to_id, station_code) ==
    IF station_code \in DOMAIN short_name_to_id
    THEN short_name_to_id[station_code]
    ELSE IF ZFill(station_code, 3) \in DOMAIN short_name_to_id
    THEN short_name_to_id[ZFill(station_code, 3)]
    ELSE IF Stripped(station_code) \in DOMAIN short_name_to_id
    THEN short_name_to_id[Stripped(station_code)]
    ELSE "None"

---------------------------------------------------------------------------
(* Lag resolution: PredictorService._load_gbfs_data.  exists is the set    *)
(* of dates whose parquet file is on disk, read[d] the rows that           *)
(* _load_parquet_cached returns for the file of date d.                    *)

\* the earliest row of matches, whatever its distance to target
Earliest(matches, target) ==
    CHOOSE r \in matches : \A q \in matches : r.t <= q.t

\* the row of matches closest to target; argmin takes the first (earliest)
\* of equally close rows, the frame being sorted by snapshot_time
Closest(matches, target) ==
    CHOOSE r \in matches :
        \A q \in matches :
            \/ Abs(r.t - target) < Abs(q.t - target)
            \/ Abs(r.t - target) = Abs(q.t - target) /\ r.t <= q.t

Matches(df, target) ==
    {r \in df : r.t >= target - ToleranceMin /\ r.t <= target + ToleranceMin}

\* the smallest index j > i whose lag has a value, 0 when there is none: the
\* nearest older offset
OlderKnown(res, i) ==
    LET known == {j \in (i + 1)..Len(res) : res[j] # None}
    IN  IF known = {} THEN 0 ELSE CHOOSE j \in known : \A m \in known : j <= m

\* the largest index j < i whose lag has a value, 0 when there is none
PrevKnown(res, i) ==
    LET known == {j \in 1..(i - 1) : res[j] # None}
    IN  IF known = {} THEN 0 ELSE CHOOSE j \in known : \A m \in known : m <= j

RECURSIVE ForwardFill(_, _)
ForwardFill(res, i) ==
    IF i > Len(res) THEN res
    ELSE IF res[i] = None /\ i > 1 /\ PrevKnown(res, i) # 0
    THEN ForwardFill([res EXCEPT ![i] = res[PrevKnown(res, i)]], i + 1)
    ELSE ForwardFill(res, i + 1)

\* checks that take the nearest older value for a missing current occupancy
CompleteLagsCurrentOptional(raw, capacity) ==
    LET current == IF raw[1] # None \/ OlderKnown(raw, 1) = 0 THEN raw
                   ELSE [raw EXCEPT ![1] = raw[OlderKnown(raw, 1)]]
        filled == ForwardFill(current, 1)
    IN  IF \E i \in 1..Len(filled) : filled[i] = None
        THEN [ok |-> FALSE, code |-> INSUFFICIENT_DATA]
        ELSE [ok |-> TRUE, code |-> SUCCESS, lags |-> filled,
              capacity |-> IF capacity # 0 THEN capacity ELSE DefaultCapacity]

\* lines 273-298 of _load_gbfs_data: the checks and the forward fill on the
\* raw lag values; hits are the lags that found a snapshot
CompleteLags(raw, capacity) ==
    LET missing == {i \in 2..Len(raw) : raw[i] = None}
        filled == IF missing # {} THEN ForwardFill(raw, 1) ELSE raw
    IN  IF raw[1] = None THEN [ok |-> FALSE, code |-> INSUFFICIENT_DATA]
        ELSE IF \E i \in 1..Len(filled) : filled[i] = None
        THEN [ok |-> FALSE, code |-> INSUFFICIENT_DATA]
        ELSE [ok |-> TRUE, code |-> SUCCESS, lags |-> filled,
              capacity |-> IF capacity # 0 THEN capacity ELSE DefaultCapacity]

\* lines 248-271: the closest snapshot of each lag, None when none matches
LagRows(df, t) ==
    LET At(i) ==
            IF Matches(df, t - LagMinutes[i]) = {} THEN None
            ELSE Closest(Matches(df, t - LagMinutes[i]), t - LagMinutes[i])
    IN  <<At(1), At(2), At(3), At(4), At(5), At(6), At(7)>>

\* the capacity of the first lag that found a snapshot, 0 (None) otherwise
FirstCapacity(rows) ==
    LET hits == {i \in 1..Len(rows) : rows[i] # None}
    IN  IF hits = {} THEN 0
        ELSE rows[CHOOSE i \in hits : \A j \in hits : i <= j].cap

LagsOfRows(rows) ==
    LET OcuAt(i) ==
            IF rows[i] = None THEN None ELSE Ocu(rows[i].bikes, rows[i].cap)
    IN  CompleteLags(<<OcuAt(1), OcuAt(2), OcuAt(3), OcuAt(4), OcuAt(5),
                       OcuAt(6), OcuAt(7)>>,
                     FirstCapacity(rows))

LagsOfFrame(files, df, t) ==
    IF files = {} THEN [ok |-> FALSE, code |-> INSUFFICIENT_DATA]
    ELSE IF df = {} THEN [ok |-> FALSE, code |-> STATION_NOT_FOUND]
    ELSE LagsOfRows(LagRows(df, t))

LoadGbfsData(exists, read, station_code, t) ==
    LagsOfFrame(
        {d \in {DateOf(t), DateOf(t) - 1} : d \in exists},
        {r : r \in {q \in UNION {read[d] : d \in {DateOf(t), DateOf(t) - 1}
                                                \cap exists} :
                        q.code = station_code}},
        t)

\* trends that ask only for the current occupancy and the two nearest lags
CalculateTrendsRecentOnly(lags) ==
    IF \E i \in 1..3 : lags[i] = None
    THEN [ok |-> FALSE, code |-> INSUFFICIENT_DATA]
    ELSE [ok |-> TRUE, code |-> SUCCESS,
          trends |-> [i \in 1..4 |-> FSub(lags[1], lags[i + 1])]]

\* PredictorService._calculate_trends on a complete lag set:
\* ocu minus ocu_lag_1, ocu_lag_2, ocu_lag_6, ocu_lag_12
CalculateTrends(lags) ==
    IF \E i \in 1..5 : lags[i] = None
    THEN [ok |-> FALSE, code |-> INSUFFICIENT_DATA]
    ELSE [ok |-> TRUE, code |-> SUCCESS,
          trends |-> [i \in 1..4 |-> FSub(lags[1], lags[i + 1])]]

---------------------------------------------------------------------------
(* Feature assembly *)

FEATURE_COLS ==
    <<"ocu", "ocu_lag_1", "ocu_lag_2", "ocu_lag_6", "ocu_lag_12",
      "ocu_lag_138", "ocu_lag_144",
      "ocu_trend_1", "ocu_trend_2", "ocu_trend_6", "ocu_trend_12",
      "time_sin", "time_cos", "day_sin", "day_cos", "is_weekend",
      "is_holiday",
      "capacity", "is_operating",
      "commerce_pois_300m", "finance_pois_300m", "culture_pois_300m",
      "education_pois_300m", "sport_recreation_pois_300m",
      "hotels_pois_300m", "food_pois_300m", "health_pois_300m",
      "drink_pois_300m",
      "transit_nearest_station_m", "transit_stations_300m",
      "ids_population_300m", "ids_300m",
      "utm_x", "utm_y",
      "station_netflow_rate", "station_turnover_rate",
      "temperature_2m", "rain", "surface_pressure", "cloud_cover",
      "wind_speed_10m", "relative_humidity_2m">>

WeekdayOf(t) == DateOf(t) % 7       \* day 0 is a Monday

\* 100 * sin(pi * a / half) for 0 <= a < 2 * half, by Bhaskara's rational
\* approximation 16x(pi - x) / (5 pi^2 - 4x(pi - x)), rounded down
Sin100(a, half) ==
    LET b == IF a <= half THEN a ELSE a - half
        p == b * (half - b)
        m == (1600 * p) \div (5 * half * half - 4 * p)
    IN  IF a <= half THEN m ELSE -m

Cos100(a, half) == Sin100((2 * a + half) % (4 * half), 2 * half)

\* temporal features whose operating window ends before 00:30
CalculateTemporalFeaturesBeforeHalfPast(t, holidays) ==
    [time_sin |-> Fin(Sin100(t % MinutesPerDay, MinutesPerDay \div 2)),
     time_cos |-> Fin(Cos100(t % MinutesPerDay, MinutesPerDay \div 2)),
     day_sin |-> Fin(Sin100(2 * WeekdayOf(t), 7)),
     day_cos |-> Fin(Cos100(2 * WeekdayOf(t), 7)),
     is_weekend |-> Fin(IF WeekdayOf(t) >= 5 THEN 1 ELSE 0),
     is_holiday |-> Fin(IF DateOf(t) \in holidays THEN 1 ELSE 0),
     is_operating |->
        Fin(IF (HourOf(t) >= 5) \/ (HourOf(t) = 0 /\ MinuteOf(t) < 30)
            THEN 1 ELSE 0)]

\* PredictorService._calculate_temporal_features; the sines and cosines in hundredths
CalculateTemporalFeatures(t, holidays) ==
    [time_sin |-> Fin(Sin100(t % MinutesPerDay, MinutesPerDay \div 2)),
     time_cos |-> Fin(Cos100(t % MinutesPerDay, MinutesPerDay \div 2)),
     day_sin |-> Fin(Sin100(2 * WeekdayOf(t), 7)),
     day_cos |-> Fin(Cos100(2 * WeekdayOf(t), 7)),
     is_weekend |-> Fin(IF WeekdayOf(t) >= 5 THEN 1 ELSE 0),
     is_holiday |-> Fin(IF DateOf(t) \in holidays THEN 1 ELSE 0),
     is_operating |->
        Fin(IF (HourOf(t) >= 5) \/ (HourOf(t) = 0 /\ MinuteOf(t) <= 30)
            THEN 1 ELSE 0)]

\* defaults that are all zero
EnrichedDefaultZero(name) == 0

\* the default of each static feature read with .get(name, default)
EnrichedDefault(name) ==
    CASE name = "transit_nearest_station_m" -> 500
      [] name = "transit_stations_300m" -> 1
      [] name = "ids_population_300m" -> 10000
      [] name = "ids_300m" -> 1      \* 0.5, in halves
      [] name = "utm_x" -> 485000
      [] name = "utm_y" -> 2150000
      [] OTHER -> 0

\* lines 469-480 of _assemble_features: the checks on the built list;
\* float(None) raises, which the except clause turns into INVALID_FEATURES
ValidateFeatures(features) ==
    IF \E i \in DOMAIN features : features[i] = None
    THEN [ok |-> FALSE, code |-> INVALID_FEATURES]
    ELSE IF Len(features) # 42
    THEN [ok |-> FALSE, code |-> INVALID_FEATURES]
    ELSE IF \E i \in DOMAIN features : IsNaN(features[i])
    THEN [ok |-> FALSE, code |-> INVALID_FEATURES]
    ELSE [ok |-> TRUE, code |-> SUCCESS, X |-> features]

\* a lookup that does not read the row of the station
EnrichedIgnoringRow(station_enriched, name) == Fin(EnrichedDefault(name))

\* station_enriched.get(name, default)
Enriched(station_enriched, name) ==
    DictGet(station_enriched, name, Fin(EnrichedDefault(name)))

\* PredictorService._assemble_features: the 42 appends, in order
AssembleFeatures(lags, temporal, trends, station_enriched, station_activity, weather, capacity_fallback) ==
    ValidateFeatures(
        <<lags[1], lags[2], lags[3], lags[4], lags[5], lags[6], lags[7],
          trends[1], trends[2], trends[3], trends[4],
          temporal.time_sin, temporal.time_cos, temporal.day_sin,
          temporal.day_cos, temporal.is_weekend, temporal.is_holiday,
          IF DOMAIN station_enriched # {}
          THEN DictGet(station_enriched, "capacity", Fin(capacity_fallback))
          ELSE Fin(capacity_fallback),
          temporal.is_operating,
          Enriched(station_enriched, "commerce_pois_300m"),
          Enriched(station_enriched, "finance_pois_300m"),
          Enriched(station_enriched, "culture_pois_300m"),
          Enriched(station_enriched, "education_pois_300m"),
          Enriched(station_enriched, "sport_recreation_pois_300m"),
          Enriched(station_enriched, "hotels_pois_300m"),
          Enriched(station_enriched, "food_pois_300m"),
          Enriched(station_enriched, "health_pois_300m"),
          Enriched(station_enriched, "drink_pois_300m"),
          Enriched(station_enriched, "transit_nearest_station_m"),
          Enriched(station_enriched, "transit_stations_300m"),
          Enriched(station_enriched, "ids_population_300m"),
          Enriched(station_enriched, "ids_300m"),
          Enriched(station_enriched, "utm_x"),
          Enriched(station_enriched, "utm_y"),
          DictGet(station_activity, "station_netflow_rate", Fin(0)),
          DictGet(station_activity, "station_turnover_rate", Fin(0)),
          weather.temperature_2m, weather.rain, weather.surface_pressure,
          weather.cloud_cover, weather.wind_speed_10m,
          weather.relative_humidity_2m>>)

---------------------------------------------------------------------------
(* PredictorService.predict_xgboost.  out[h] is what the regressor of      *)
(* horizon h does when it is called: it raises, or returns the occupancy   *)
(* delta out[h].delta / OcuScale.                                          *)

\* max(0, min(int(np.round(ocu * capacity)), capacity)) for a finite ocu
BikesOf(ocu, capacity) ==
    Max2(0, Min2(RoundHalfEven(ocu.v * capacity, OcuScale), capacity))

\* a loop body without the operating-window check
PredictHorizonNoWindow(h, t, models, out, ocu_actual, capacity) ==
    LET ocu_pred == Clip01(FAdd(ocu_actual, Fin(out[h].delta)))
    IN  IF h \in models /\ ~out[h].raise /\ IsFinite(ocu_pred)
        THEN [occ |-> ocu_pred, bikes |-> BikesOf(ocu_pred, capacity),
              called |-> TRUE, invoked |-> TRUE, exc |-> FALSE,
              raised |-> FALSE, delta |-> out[h].delta]
        ELSE [occ |-> ocu_actual,
              bikes |-> IF IsFinite(ocu_actual)
                        THEN BikesOf(ocu_actual, capacity) ELSE 0,
              called |-> TRUE, invoked |-> h \in models,
              exc |-> ~IsFinite(ocu_actual), raised |-> TRUE, delta |-> 0]

\* one pass of the loop over the horizons.  called: the model call of line
\* 658 was executed; invoked: a loaded regressor ran; raised: the try block
\* raised and the except branch ran; delta: what the regressor returned;
\* exc: an exception left the except branch (int() of an infinite value)
PredictHorizon(h, t, models, out, ocu_actual, capacity) ==
    LET ocu_pred == Clip01(FAdd(ocu_actual, Fin(out[h].delta)))
        model_ok == h \in models /\ ~out[h].raise /\ IsFinite(ocu_pred)
    IN  IF ~IsOperatingAtTime(t + h)
        THEN [occ |-> Fin(0), bikes |-> 0, called |-> FALSE,
              invoked |-> FALSE, exc |-> FALSE, raised |-> FALSE,
              delta |-> 0]
        ELSE IF model_ok
        THEN [occ |-> ocu_pred, bikes |-> BikesOf(ocu_pred, capacity),
              called |-> TRUE, invoked |-> TRUE, exc |-> FALSE,
              raised |-> FALSE, delta |-> out[h].delta]
        ELSE IF IsFinite(ocu_actual)
        THEN [occ |-> ocu_actual, bikes |-> BikesOf(ocu_actual, capacity),
              called |-> TRUE, invoked |-> h \in models, exc |-> FALSE,
              raised |-> TRUE, delta |-> 0]
        ELSE [occ |-> ocu_actual, bikes |-> 0, called |-> TRUE,
              invoked |-> h \in models, exc |-> TRUE, raised |-> TRUE,
              delta |-> 0]

NoPredictions ==
    [h \in Horizons |-> [occ |-> None, bikes |-> 0, called |-> FALSE,
                         invoked |-> FALSE, exc |-> FALSE, raised |-> FALSE,
                         delta |-> 0]]

\* what predict_xgboost returns: code, and with SUCCESS the predictions;
\* exc when it raises instead of returning
XgbFailure(code) ==
    [code |-> code, exc |-> FALSE, error |-> "", preds |-> NoPredictions,
     capacity |-> 0, current_bikes |-> 0, X |-> <<>>]

\* predict_xgboost raises before it reaches the loop over the horizons
XgbRaises(error) ==
    [XgbFailure(SUCCESS) EXCEPT !.exc = TRUE, !.error = error]

\* lines 641-695: the loop over the horizons and the response
XgbPredictions(preds, ocu_actual, capacity, X) ==
    [code |-> SUCCESS,
     exc |-> (\E h \in Horizons : preds[h].exc) \/ ~IsFinite(ocu_actual),
     error |-> IF (\E h \in Horizons : preds[h].exc) \/ ~IsFinite(ocu_actual)
               THEN "OverflowError" ELSE "",
     preds |-> preds,
     capacity |-> capacity,
     current_bikes |-> IF IsFinite(ocu_actual)
                       THEN BikesOf(ocu_actual, capacity) ELSE 0,
     X |-> X]

\* lines 625-640, with the assembled features a
XgbAfterAssembly(a, g, models, t, out) ==
    IF a.code # SUCCESS THEN XgbFailure(a.code)
    ELSE XgbPredictions(
            [h \in Horizons |->
                PredictHorizon(h, t, models, out, g.lags[1], g.capacity)],
            g.lags[1], g.capacity, a.X)

\* lines 609-635, with the trends tr
XgbAfterTrends(tr, g, models, tbl, station_code, weather, t, out) ==
    IF tr.code # SUCCESS THEN XgbFailure(tr.code)
    ELSE XgbAfterAssembly(
            AssembleFeatures(
                g.lags, CalculateTemporalFeatures(t, tbl.holidays),
                tr.trends,
                IF station_code \in DOMAIN tbl.stations_enriched
                THEN tbl.stations_enriched[station_code] ELSE <<>>,
                IF <<station_code, WeekdayOf(t), HourOf(t)>>
                    \in DOMAIN tbl.station_activity
                THEN tbl.station_activity[
                        <<station_code, WeekdayOf(t), HourOf(t)>>]
                ELSE [station_netflow_rate |-> Fin(0),
                      station_turnover_rate |-> Fin(0)],
                weather, g.capacity),
            g, models, t, out)

\* a predict_xgboost whose holiday lookup takes an undated calendar as one
\* without holidays
XgbAfterLagsAnyCalendar(g, models, tbl, station_code, weather, t, out) ==
    IF g.code # SUCCESS THEN XgbFailure(g.code)
    ELSE XgbAfterTrends(CalculateTrends(g.lags), g, models, tbl,
                        station_code, weather, t, out)

\* lines 586-613, with the lag resolution g.  In line 331 of
\* _calculate_temporal_features the accessor .dt raises AttributeError on
\* the "date" column of the frame DataFrame(columns=["date"]) (line 142),
\* whose dtype is object; nothing catches it in predict_xgboost
XgbAfterLags(g, models, tbl, station_code, weather, t, out) ==
    IF g.code # SUCCESS THEN XgbFailure(g.code)
    ELSE IF ~tbl.holidays_dated THEN XgbRaises("AttributeError")
    ELSE XgbAfterTrends(CalculateTrends(g.lags), g, models, tbl,
                        station_code, weather, t, out)

\* a predict_xgboost that looks at the models after the lags
PredictXgboostLagsFirst(loaded, models, tbl, exists, read, station_code, weather, t, out) ==
    IF LoadGbfsData(exists, read, station_code, t).code # SUCCESS
    THEN XgbFailure(LoadGbfsData(exists, read, station_code, t).code)
    ELSE IF ~loaded THEN XgbFailure(MODEL_NOT_LOADED)
    ELSE XgbAfterLags(LoadGbfsData(exists, read, station_code, t), models,
                      tbl, station_code, weather, t, out)

PredictXgboost(loaded, models, tbl, exists, read, station_code, weather, t, out) ==
    IF ~loaded THEN XgbFailure(MODEL_NOT_LOADED)
    ELSE XgbAfterLags(LoadGbfsData(exists, read, station_code, t), models,
                      tbl, station_code, weather, t, out)

\* PredictorService.predict, the wrapper the route calls.  raised names the
\* exception that leaves it, "" when it returns
NotPredicted ==
    [raised |-> "", xgb |-> FALSE, r |-> XgbFailure(SUCCESS),
     bikes |-> [h \in Horizons |-> 0]]

\* lines 533-548 of predict, with predict_xgboost's result r
PredictResult(r, station_data) ==
    IF r.exc
    THEN [NotPredicted EXCEPT !.raised = r.error, !.xgb = TRUE, !.r = r]
    ELSE IF r.code # SUCCESS
    THEN [raised |-> "", xgb |-> TRUE, r |-> r,
          bikes |-> [h \in Horizons |->
                        DictGet(station_data, "bikes_available", 0)]]
    ELSE [raised |-> "", xgb |-> TRUE, r |-> r,
          bikes |-> [h \in Horizons |-> r.preds[h].bikes]]

\* a wrapper that leaves the load check to predict_xgboost
PredictWithoutLoadCheck(loaded, models, tbl, exists, read, station_data, weather, t, out) ==
    IF DictGet(station_data, "station_code", <<>>) = <<>>
    THEN [NotPredicted EXCEPT !.raised = "ValueError"]
    ELSE PredictResult(
            PredictXgboost(loaded, models, tbl, exists, read,
                           DictGet(station_data, "station_code", <<>>),
                           weather, t, out),
            station_data)

Predict(loaded, models, tbl, exists, read, station_data, weather, t, out) ==
    IF ~loaded THEN [NotPredicted EXCEPT !.raised = "RuntimeError"]
    ELSE IF DictGet(station_data, "station_code", <<>>) = <<>>
    THEN [NotPredicted EXCEPT !.raised = "ValueError"]
    ELSE PredictResult(
            PredictXgboost(loaded, models, tbl, exists, read,
                           DictGet(station_data, "station_code", <<>>),
                           weather, t, out),
            station_data)

\* a predict that answers the selector m2 with the fallback
PredictForSelectedModel(loaded, models, tbl, exists, read, station_data, weather_data, lags, t, is_holiday, model_type, out) ==
    IF model_type = "m2"
    THEN Predict(FALSE, models, tbl, exists, read, station_data,
                 weather_data, t, out)
    ELSE Predict(loaded, models, tbl, exists, read, station_data,
                 weather_data, t, out)

\* predict with every parameter of its signature: lags, is_holiday and
\* model_type are received and never read
PredictFor(loaded, models, tbl, exists, read, station_data, weather_data, lags, t, is_holiday, model_type, out) ==
    Predict(loaded, models, tbl, exists, read, station_data, weather_data,
            t, out)

---------------------------------------------------------------------------
(* GBFSService: the caches and get_station_data.  A feed is the list of    *)
(* station objects of station_information.json or station_status.json.    *)

\* the loop of _refresh_station_info over the fetched stations
RECURSIVE InfoCacheOf(_)
InfoCacheOf(stations) ==
    IF stations = <<>> THEN <<>>
    ELSE LET rest == InfoCacheOf(SubSeq(stations, 1, Len(stations) - 1))
             st == stations[Len(stations)]
         IN  [id \in (DOMAIN rest) \cup {st.station_id} |->
                IF id = st.station_id THEN st ELSE rest[id]]

RECURSIVE ShortNameMapOf(_)
ShortNameMapOf(stations) ==
    IF stations = <<>> THEN <<>>
    ELSE LET rest == ShortNameMapOf(SubSeq(stations, 1, Len(stations) - 1))
             st == stations[Len(stations)]
             short_name == DictGet(st, "short_name", <<>>)
         IN  IF short_name = <<>> THEN rest
             ELSE [c \in (DOMAIN rest) \cup {short_name} |->
                    IF c = short_name THEN st.station_id ELSE rest[c]]

\* the dict comprehension of _refresh_station_status
StatusCacheOf(stations) == InfoCacheOf(stations)

\* get_station_info / get_station_status after the cache refresh
CacheLookup(cache, short_name_to_id, station_code) ==
    LET station_id == ResolveStationId(short_name_to_id, station_code)
    IN  IF station_id # "None" /\ station_id \in DOMAIN cache
        THEN [found |-> TRUE, rec |-> cache[station_id]]
        ELSE [found |-> FALSE, rec |-> <<>>]

\* a get_station_data that answers from the station information alone
MergeStationDataInfoOnly(info, status, station_code) ==
    IF ~info.found THEN [found |-> FALSE, data |-> <<>>]
    ELSE [found |-> TRUE,
          data |-> [station_code |->
                        DictGet(info.rec, "short_name", station_code),
                    station_id |-> info.rec.station_id,
                    capacity |-> DictGet(info.rec, "capacity", 0),
                    num_bikes_available |->
                        DictGet(status.rec, "num_bikes_available", 0)]]

\* get_station_data on refreshed caches: the merged record, or not found
\* lines 185-201 of get_station_data, with the two lookups
MergeStationData(info, status, station_code) ==
    IF ~info.found \/ ~status.found THEN [found |-> FALSE, data |-> <<>>]
    ELSE [found |-> TRUE,
          data |-> [station_code |->
                        DictGet(info.rec, "short_name", station_code),
                    station_id |-> info.rec.station_id,
                    capacity |-> DictGet(info.rec, "capacity", 0),
                    num_bikes_available |->
                        DictGet(status.rec, "num_bikes_available", 0)]]

GetStationData(g, station_code) ==
    MergeStationData(
        CacheLookup(g.info_cache, g.short_name_to_id, station_code),
        CacheLookup(g.status_cache, g.short_name_to_id, station_code),
        station_code)

---------------------------------------------------------------------------
(* GBFSService: the refresh of the caches.  A fetch is what _fetch_json    *)
(* does when it is called: it raises error, or returns the stations.       *)

StationInfoTtlSeconds == 86400
StationStatusTtlSeconds == 60

FetchReturns(stations) == [error |-> "", stations |-> stations]
FetchRaises(error) == [error |-> error, stations |-> <<>>]

\* lines 46-50 and 79-83: the cache of this timestamp is still valid
CacheValid(timestamp, now, ttl) ==
    timestamp # None /\ now - timestamp.v < ttl

\* the stations that come before the first one without a station_id, at
\* which the loop of _refresh_station_info raises KeyError
RECURSIVE ReadablePrefix(_)
ReadablePrefix(stations) ==
    IF stations = <<>> THEN <<>>
    ELSE IF "station_id" \notin DOMAIN Head(stations) THEN <<>>
    ELSE <<Head(stations)>> \o ReadablePrefix(Tail(stations))

\* a loop that fills the map without emptying it first
StoreStationInfoKeepingMap(g, now, stations, read) ==
    [g |-> [g EXCEPT !.info_cache = InfoCacheOf(read),
                     !.short_name_to_id =
                        [k \in DOMAIN g.short_name_to_id
                                \cup DOMAIN ShortNameMapOf(read) |->
                            IF k \in DOMAIN ShortNameMapOf(read)
                            THEN ShortNameMapOf(read)[k]
                            ELSE g.short_name_to_id[k]],
                     !.info_timestamp = Fin(now)],
     raised |-> "", fetched |-> TRUE, failed |-> FALSE, stored |-> TRUE]

\* lines 58-68 of _refresh_station_info, with the stations that the loop
\* reads before it ends or raises
StoreStationInfo(g, now, stations, read) ==
    IF Len(read) < Len(stations)
    THEN [g |-> [g EXCEPT !.info_cache = InfoCacheOf(read),
                          !.short_name_to_id = ShortNameMapOf(read)],
          raised |-> "KeyError", fetched |-> TRUE, failed |-> FALSE,
          stored |-> FALSE]
    ELSE [g |-> [g EXCEPT !.info_cache = InfoCacheOf(read),
                          !.short_name_to_id = ShortNameMapOf(read),
                          !.info_timestamp = Fin(now)],
          raised |-> "", fetched |-> TRUE, failed |-> FALSE,
          stored |-> TRUE]

\* a refresh that empties the cache and the map before it fetches
RefreshStationInfoClearingFirst(g, now, fetch) ==
    IF CacheValid(g.info_timestamp, now, StationInfoTtlSeconds)
    THEN [g |-> g, raised |-> "", fetched |-> FALSE, failed |-> FALSE,
          stored |-> FALSE]
    ELSE IF fetch.error # ""
    THEN [g |-> [g EXCEPT !.info_cache = <<>>, !.short_name_to_id = <<>>],
          raised |-> fetch.error, fetched |-> TRUE, failed |-> TRUE,
          stored |-> FALSE]
    ELSE StoreStationInfo(g, now, fetch.stations,
                          ReadablePrefix(fetch.stations))

\* GBFSService._refresh_station_info called at time now
RefreshStationInfo(g, now, fetch) ==
    IF CacheValid(g.info_timestamp, now, StationInfoTtlSeconds)
    THEN [g |-> g, raised |-> "", fetched |-> FALSE, failed |-> FALSE,
          stored |-> FALSE]
    ELSE IF fetch.error # ""
    THEN [g |-> g, raised |-> fetch.error, fetched |-> TRUE, failed |-> TRUE,
          stored |-> FALSE]
    ELSE StoreStationInfo(g, now, fetch.stations,
                          ReadablePrefix(fetch.stations))

\* lines 89-96 of _refresh_station_status: the comprehension raises KeyError
\* before anything is assigned when a station has no station_id
StoreStationStatus(g, now, stations) ==
    IF Len(ReadablePrefix(stations)) < Len(stations)
    THEN [g |-> g, raised |-> "KeyError", fetched |-> TRUE, failed |-> FALSE,
          stored |-> FALSE]
    ELSE [g |-> [g EXCEPT !.status_cache = StatusCacheOf(stations),
                          !.status_timestamp = Fin(now)],
          raised |-> "", fetched |-> TRUE, failed |-> FALSE,
          stored |-> TRUE]

\* a status refresh that looks at the timestamp of the information cache
RefreshStationStatusSharedTimestamp(g, now, fetch) ==
    IF CacheValid(g.info_timestamp, now, StationStatusTtlSeconds)
    THEN [g |-> g, raised |-> "", fetched |-> FALSE, failed |-> FALSE,
          stored |-> FALSE]
    ELSE IF fetch.error # ""
    THEN [g |-> g, raised |-> fetch.error, fetched |-> TRUE, failed |-> TRUE,
          stored |-> FALSE]
    ELSE StoreStationStatus(g, now, fetch.stations)

\* GBFSService._refresh_station_status called at time now
RefreshStationStatus(g, now, fetch) ==
    IF CacheValid(g.status_timestamp, now, StationStatusTtlSeconds)
    THEN [g |-> g, raised |-> "", fetched |-> FALSE, failed |-> FALSE,
          stored |-> FALSE]
    ELSE IF fetch.error # ""
    THEN [g |-> g, raised |-> fetch.error, fetched |-> TRUE, failed |-> TRUE,
          stored |-> FALSE]
    ELSE StoreStationStatus(g, now, fetch.stations)

\* the kinds whose refresh outcome (i: information, s: status) has the flag
Kinds(i, s, flag) ==
    {k \in {"info"} : i[flag]} \cup {k \in {"status"} : s[flag]}

NotEntered ==
    [raised |-> "", fetched |-> FALSE, failed |-> FALSE, stored |-> FALSE]

\* a _refresh_cache that runs the status refresh after a failed
\* information refresh too
RefreshCacheResultBoth(i, s) ==
    [g |-> s.g, raised |-> IF i.raised # "" THEN i.raised ELSE s.raised,
     entered |-> {"info", "status"},
     fetched |-> Kinds(i, s, "fetched"),
     failed |-> Kinds(i, s, "failed"),
     stored |-> Kinds(i, s, "stored")]

\* _refresh_cache, with the outcome i of the information refresh and the
\* outcome s of the status refresh that follows it when i did not raise
RefreshCacheResult(i, s) ==
    IF i.raised # ""
    THEN [g |-> i.g, raised |-> i.raised, entered |-> {"info"},
          fetched |-> Kinds(i, NotEntered, "fetched"),
          failed |-> Kinds(i, NotEntered, "failed"),
          stored |-> Kinds(i, NotEntered, "stored")]
    ELSE [g |-> s.g, raised |-> s.raised, entered |-> {"info", "status"},
          fetched |-> Kinds(i, s, "fetched"),
          failed |-> Kinds(i, s, "failed"),
          stored |-> Kinds(i, s, "stored")]

\* the status refresh of _refresh_cache, on the caches that the information
\* refresh with outcome i has left
RefreshCacheAfterInfo(i, now, status_fetch) ==
    RefreshCacheResult(i, RefreshStationStatus(i.g, now, status_fetch))

\* GBFSService._refresh_cache
RefreshCache(g, now, info_fetch, status_fetch) ==
    RefreshCacheAfterInfo(RefreshStationInfo(g, now, info_fetch), now,
                          status_fetch)

\* an availability check without the try block
IsAvailableUnguarded(r) ==
    [raised |-> r.raised, value |-> DOMAIN r.g.status_cache # {}]

\* GBFSService.is_available, with the outcome r of its _refresh_cache
IsAvailable(r) ==
    IF r.raised # "" THEN [raised |-> "", value |-> FALSE]
    ELSE [raised |-> "", value |-> DOMAIN r.g.status_cache # {}]

\* the status field of health_check's response
HealthStatus(is_loaded, gbfs_available) ==
    IF is_loaded /\ gbfs_available THEN "healthy" ELSE "degraded"

---------------------------------------------------------------------------
(* PredictorService: the holiday calendar and the two feature tables that  *)
(* load_models reads.                                                      *)

\* the tables in the order in which load_models reads them
TableNames == <<"holidays", "stations_enriched", "station_activity">>

\* PredictorService.__init__: no table is assigned yet.  holidays_dated
\* tells that the "date" column of holidays_df holds datetimes
NoTables ==
    [stations_enriched |-> <<>>, station_activity |-> <<>>, holidays |-> {},
     holidays_dated |-> FALSE, assigned |-> {}]

\* the tables when their files are missing: three empty frames, that of the
\* holidays with a "date" column of dtype object
EmptyTables ==
    [NoTables EXCEPT !.assigned = {TableNames[i] : i \in DOMAIN TableNames}]

\* the tables when holidays.csv lists no day of the model and the other two
\* files are missing
NoHolidays == [EmptyTables EXCEPT !.holidays_dated = TRUE]

\* lines 134-165 of load_models.  found is what the files give (for a
\* missing file the empty frame); fails_at is the position in TableNames of
\* the table whose read raises, 0 when none does.  The tables read before
\* the exception stay assigned
LoadTables(tbl, found, fails_at) ==
    LET done == {TableNames[i] :
                    i \in {j \in DOMAIN TableNames :
                            fails_at = 0 \/ j < fails_at}}
    IN  [stations_enriched |->
            IF "stations_enriched" \in done THEN found.stations_enriched
            ELSE tbl.stations_enriched,
         station_activity |->
            IF "station_activity" \in done THEN found.station_activity
            ELSE tbl.station_activity,
         holidays |->
            IF "holidays" \in done THEN found.holidays ELSE tbl.holidays,
         holidays_dated |->
            IF "holidays" \in done THEN found.holidays_dated
            ELSE tbl.holidays_dated,
         assigned |-> tbl.assigned \cup done]

---------------------------------------------------------------------------
(* The route POST /predict/{station_code}: predict_availability.           *)

NoResponse ==
    [op |-> "none", status |-> 0, current_bikes |-> 0, capacity |-> 0,
     bikes |-> [h \in Horizons |-> 0], xgb |-> FALSE, code |-> SUCCESS,
     occ |-> [h \in Horizons |-> None], called |-> {}, invoked |-> {},
     now |-> 0, raised |-> "", loaded |-> {}, found |-> NoTables,
     fails_at |-> 0, returned |-> FALSE]

\* lines 116-150 of predict_availability, with predict's outcome p
PredictionResponse(p, station_data, t) ==
    IF p.raised # ""
    THEN [NoResponse EXCEPT !.op = "predict", !.now = t, !.status = 500,
                            !.raised = p.raised, !.xgb = p.xgb,
                            !.code = p.r.code]
    ELSE [NoResponse EXCEPT
            !.op = "predict", !.now = t,
            !.status = 200,
            !.current_bikes = DictGet(station_data, "num_bikes_available", 0),
            !.capacity = DictGet(station_data, "capacity", 0),
            !.bikes = p.bikes,
            !.xgb = p.xgb,
            !.code = p.r.code,
            !.occ = [h \in Horizons |-> p.r.preds[h].occ],
            !.called = {h \in Horizons : p.r.preds[h].called},
            !.invoked = {h \in Horizons : p.r.preds[h].invoked}]

\* lines 85-93, with get_station_data's result sd.  The lags that lines
\* 105-110 compute are handed to predict, which does not read them; a
\* RuntimeError becomes HTTP 500 in lines 125-130, any other exception is
\* answered with 500 by the framework
RespondToStation(sd, loaded, models, tbl, exists, read, weather, t, out) ==
    IF ~sd.found
    THEN [NoResponse EXCEPT !.op = "predict", !.now = t, !.status = 404]
    ELSE PredictionResponse(
            Predict(loaded, models, tbl, exists, read, sd.data, weather,
                    t, out),
            sd.data, t)

PredictAvailabilityResponse(loaded, models, tbl, exists, read, g, station_code, weather, t, out) ==
    RespondToStation(GetStationData(g, station_code), loaded, models, tbl,
                     exists, read, weather, t, out)

---------------------------------------------------------------------------
(* GBFSCollector: one snapshot row per station of the status feed that the *)
(* information feed lists with a short name.                               *)

\* the records of _collect_snapshot for the two fetched feeds at time t
SnapshotRows(info_feed, status_feed, t) ==
    LET stations_info == InfoCacheOf(info_feed)
    IN  {[t |-> t,
          code |-> stations_info[status_feed[i].station_id].short_name,
          bikes |-> DictGet(status_feed[i], "num_bikes_available", 0),
          cap |-> DictGet(stations_info[status_feed[i].station_id],
                          "capacity", 0)] :
            i \in {j \in DOMAIN status_feed :
                    /\ status_feed[j].station_id \in DOMAIN stations_info
                    /\ "short_name" \in
                        DOMAIN stations_info[status_feed[j].station_id]}}

\* _save_snapshot: concatenate to the day's file, one row per
\* (snapshot_time, station_code), the new row kept
SaveSnapshot(rows, df) ==
    {r \in rows : ~\E n \in df : n.t = r.t /\ n.code = r.code} \cup df

FileRows(rows, d) == {r \in rows : DateOf(r.t) = d}
ExistingFiles(rows) == {DateOf(r.t) : r \in rows}

\* what _load_parquet_cached returns for the file of date d
CachedRead(cache, rows) ==
    [d \in ExistingFiles(rows) |->
        IF \E e \in cache : e.d = d
        THEN (CHOOSE e \in cache : e.d = d).rows
        ELSE FileRows(rows, d)]

\* the cache after _load_gbfs_data has read the files of t's two dates
CacheAfterReadNoRows(cache, rows, t) ==
    cache \cup
    {[d |-> d, rows |-> {}] :
        d \in {x \in {DateOf(t), DateOf(t) - 1} :
                /\ x \in ExistingFiles(rows)
                /\ ~\E e \in cache : e.d = x}}
CacheAfterRead(cache, rows, t) ==
    cache \cup
    {[d |-> d, rows |-> FileRows(rows, d)] :
        d \in {x \in {DateOf(t), DateOf(t) - 1} :
                /\ x \in ExistingFiles(rows)
                /\ ~\E e \in cache : e.d = x}}

---------------------------------------------------------------------------
(* The environment of the model *)

\* the instants at which something happens: 23:55 of day 0, then 00:00,
\* 00:45 and 04:30 of day 1
TimePoints == {1435, 1440, 1485, 1710}
StartTime == CHOOSE t \in TimePoints : \A u \in TimePoints : t <= u

InfoRec(id, short_name, capacity) ==
    [station_id |-> id, short_name |-> short_name, capacity |-> capacity]
StatusRec(id, n) == [station_id |-> id, num_bikes_available |-> n]

\* what station_information.json can hold: nothing, or stations a and b
InfoFeeds ==
    {<<>>} \cup
    {<<InfoRec("a", <<0, 0, 1>>, c), InfoRec("b", <<0, 0, 2>>, MaxCap)>> :
        c \in Caps}

\* what station_status.json can hold: station b alone, or a and b
StatusFeeds ==
    {<<StatusRec("b", 0)>>} \cup
    {<<StatusRec("a", n), StatusRec("b", 0)>> : n \in Bikes}

\* the caches as a refresh from the two feeds leaves them
CacheOf(info_feed, status_feed) ==
    [info_cache |-> InfoCacheOf(info_feed),
     short_name_to_id |-> ShortNameMapOf(info_feed),
     status_cache |-> StatusCacheOf(status_feed)]

RequestCodes == {<<1>>, <<9>>}

FiniteWeather ==
    [temperature_2m |-> Fin(20), rain |-> Fin(0), surface_pressure |-> Fin(780),
     cloud_cover |-> Fin(50), wind_speed_10m |-> Fin(10),
     relative_humidity_2m |-> Fin(40)]
Weathers == {FiniteWeather, [FiniteWeather EXCEPT !.rain = NaN]}

Deltas == {-OcuScale, OcuScale}
Raises == [raise |-> TRUE, delta |-> 0]
ModelOutcomes == {Raises} \cup {[raise |-> FALSE, delta |-> d] : d \in Deltas}

\* one outcome for each regressor that a request at time t can call; a
\* regressor that is not called has no outcome to choose
OutcomeChoices(models, t) ==
    {out \in [Horizons -> ModelOutcomes] :
        \A h \in Horizons :
            (h \notin models \/ ~IsOperatingAtTime(t + h)) => out[h] = Raises}

\* StatisticsService.__init__: no path, an empty buffer, a free buffer lock,
\* no flush task; files maps each date that has a statistics file to the
\* records of the file
NewStatistics ==
    [path |-> FALSE, buffer |-> <<>>, lock |-> FALSE, files |-> <<>>,
     flush_task |-> FALSE]

\* GBFSService.__init__: empty caches and map, no timestamps
NewGbfsService ==
    [info_cache |-> <<>>, short_name_to_id |-> <<>>, status_cache |-> <<>>,
     info_timestamp |-> None, status_timestamp |-> None]

NeverFetched == [info |-> None, status |-> None]

---------------------------------------------------------------------------
(* Actions *)

\* no operation is waiting for its result to be taken
Idle == last.op = "none"

Init ==
    /\ clock = StartTime
    /\ phase = "startup"
    /\ xgboost_models = {}
    /\ models_loaded = FALSE
    /\ store = {}
    /\ parquet_cache = {}
    /\ saves = 0
    /\ gbfs = NewGbfsService
    /\ wall = 0
    /\ fetched_at = NeverFetched
    /\ raw_snapshots = {}
    /\ tables = NoTables
    /\ scheduler = [running |-> FALSE, jobs |-> {}, done |-> {}]
    /\ gbfs_collector = [enabled |-> TRUE, http_client |-> FALSE]
    /\ feedback_rate_limit = <<>>
    /\ feedback_log = <<>>
    /\ tasks = {}
    /\ statistics = NewStatistics
    /\ history_cache = {}
    /\ last = NoResponse

\* a load_models that sets the flag to what the call returns
LoadedAfterReturn(loaded, files, fails_at) == files # {} /\ fails_at = 0

\* _models_loaded after load_models: the call returns before the assignment
\* of line 167 when no artifact exists or when a read raises, and the
\* assignment stores loaded_count > 0
LoadedAfter(loaded, files, fails_at) ==
    IF files = {} \/ fails_at # 0 THEN loaded
    ELSE Cardinality(files) > 0

\* PredictorService.load_models, called once by lifespan: files are the
\* horizons whose artifact exists, found and fails_at as in LoadTables.  An
\* exception of joblib.load leaves the state that an exception of the
\* first table read leaves after the artifacts loaded before it
LoadModels(files, found, fails_at) ==
    /\ Idle
    /\ phase = "startup"
    /\ phase' = "serving"
    /\ xgboost_models' = xgboost_models \cup files
    /\ tables' = IF files = {} THEN tables
                 ELSE LoadTables(tables, found, fails_at)
    /\ models_loaded' = LoadedAfter(models_loaded, files, fails_at)
    /\ last' = [NoResponse EXCEPT
                    !.op = "load",
                    !.loaded = files,
                    !.found = found,
                    !.fails_at = fails_at,
                    !.returned = IF files = {} \/ fails_at # 0 THEN FALSE
                                 ELSE Cardinality(files) > 0]
    /\ UNCHANGED <<raw_snapshots, scheduler, gbfs_collector, aside>>
    /\ UNCHANGED <<clock, store, parquet_cache, saves, feed>>

Tick ==
    /\ Idle
    /\ \E t \in TimePoints : t > clock /\ clock' = t
    /\ last' = last
    /\ UNCHANGED <<raw_snapshots, tables, scheduler, gbfs_collector, aside>>
    /\ UNCHANGED <<phase, xgboost_models, models_loaded, store, parquet_cache,
                   saves, feed>>

\* GBFSCollector.collect_snapshot: the first attempt that yields rows saves
\* them; after max_retries attempts without rows nothing is saved
CollectSnapshot(info_feed, status_feed) ==
    /\ Idle
    /\ phase = "serving"
    /\ saves < MaxSaves
    /\ SnapshotRows(info_feed, status_feed, clock) # {}
    /\ store' = SaveSnapshot(store, SnapshotRows(info_feed, status_feed, clock))
    /\ saves' = saves + 1
    /\ last' = [NoResponse EXCEPT !.op = "collect"]
    /\ UNCHANGED <<raw_snapshots, tables, scheduler, gbfs_collector, aside>>
    /\ UNCHANGED <<clock, phase, xgboost_models, models_loaded, parquet_cache,
                   feed>>

PredictAvailability(station_code, g, weather, out) ==
    /\ Idle
    /\ phase = "serving"
    /\ last' = PredictAvailabilityResponse(
                    models_loaded, xgboost_models, tables,
                    ExistingFiles(store), CachedRead(parquet_cache, store),
                    g, station_code, weather, clock, out)
    /\ parquet_cache' =
        IF last'.xgb /\ last'.code # MODEL_NOT_LOADED
        THEN CacheAfterRead(parquet_cache, store, clock)
        ELSE parquet_cache
    /\ UNCHANGED <<raw_snapshots, tables, scheduler, gbfs_collector, aside>>
    /\ UNCHANGED <<clock, phase, xgboost_models, models_loaded, store, saves,
                   feed>>

\* the caller takes the result of the last operation
Return ==
    /\ ~Idle
    /\ last' = NoResponse
    /\ UNCHANGED <<raw_snapshots, tables, scheduler, gbfs_collector, aside>>
    /\ UNCHANGED <<clock, phase, xgboost_models, models_loaded, store,
                   parquet_cache, saves, feed>>

Next ==
    \/ Return
    \/ \E files \in SUBSET Horizons, found \in {EmptyTables, NoHolidays},
          fails_at \in {0, 1} :
            LoadModels(files, found, fails_at)
    \/ Tick
    \/ \E fi \in InfoFeeds, fs \in StatusFeeds : CollectSnapshot(fi, fs)
    \/ \E c \in RequestCodes, fi \in InfoFeeds, fs \in StatusFeeds,
          w \in Weathers, out \in OutcomeChoices(xgboost_models, clock) :
            PredictAvailability(c, CacheOf(fi, fs), w, out)

Spec == Init /\ [][Next]_vars

---------------------------------------------------------------------------
(* Properties of the predict endpoint, checked under Spec.  last holds the *)
(* response of the request that has just been served.                      *)

\* a prediction response (status 200) has just been returned
Predicted == last.op = "predict" /\ last.status = 200

\* the operating window 05:00-00:30, by the minute of the day
InWindow(t) == (t % 1440 >= 300) \/ (t % 1440 <= 30)

\* the snapshot files of the request's date and of the day before
RequiredDates == {DateOf(last.now), DateOf(last.now) - 1}

\* C1: in every prediction response each of bikes_20min, bikes_40min and
\* bikes_60min is an integer between 0 and the capacity that the same
\* response reports.  The code clamps to the capacity of the snapshot row,
\* the response reports the capacity of the feed cache.
C1_BikesWithinResponseCapacity ==
    Predicted => \A h \in Horizons : last.bikes[h] \in 0..last.capacity

\* C2: for each horizon h, when now + h lies outside the operating window
\* the horizon's result is occupancy 0.0 and 0 bikes and the model call is
\* not made; otherwise the model call is made, and a loaded regressor runs.
C2_WindowDecidesModelRun ==
    (Predicted /\ last.xgb /\ last.code = SUCCESS) =>
        \A h \in Horizons :
            IF InWindow(last.now + h)
            THEN /\ h \in last.called
                 /\ (h \in xgboost_models => h \in last.invoked)
            ELSE /\ last.occ[h] = Fin(0)
                 /\ last.bikes[h] = 0
                 /\ h \notin last.called
                 /\ h \notin last.invoked

\* a response in which one horizon is forced to zero and another is
\* computed by its regressor
C2_Witness ==
    /\ Predicted /\ last.xgb /\ last.code = SUCCESS
    /\ \E h \in Horizons : ~InWindow(last.now + h) /\ last.bikes[h] = 0
    /\ \E h \in Horizons : InWindow(last.now + h) /\ h \in last.invoked
                            /\ last.bikes[h] > 0

C4_NoFileRepeatsCurrentBikes ==
    (Predicted /\ RequiredDates \cap ExistingFiles(store) = {}) =>
        /\ last.xgb /\ last.code = INSUFFICIENT_DATA
        /\ \A h \in Horizons : last.bikes[h] = last.current_bikes

\* C5: a request whose station the feed cache or the predictor (outcome
\* STATION_NOT_FOUND) cannot resolve ends in 404, without predictions.
C5_UnresolvedStationIsNotFound ==
    (last.op = "predict" /\ last.xgb /\ last.code = STATION_NOT_FOUND) =>
        last.status = 404

---------------------------------------------------------------------------
(* The feed cache on its own: requests and health checks that refresh the  *)
(* caches while the wall clock advances and fetches succeed or fail.       *)

\* the instants of the wall clock, in seconds
FeedTimes == {0, 59, 60, 119, 86399, 86400, 86459}

\* a payload whose second station has no station_id
MalformedInfoFeed ==
    <<InfoRec("a", <<0, 0, 1>>, MaxCap),
      [short_name |-> <<0, 0, 2>>, capacity |-> MaxCap]>>

NoFetch == FetchRaises("not called")

InfoFetches ==
    {FetchRaises("HTTPError"), FetchReturns(MalformedInfoFeed),
     FetchReturns(<<InfoRec("a", <<0, 0, 1>>, MaxCap),
                    InfoRec("b", <<0, 0, 2>>, MaxCap)>>)}

StatusFetches ==
    {FetchRaises("HTTPError"), FetchReturns(<<>>),
     FetchReturns(<<StatusRec("a", MaxBikes), StatusRec("b", 0)>>)}

\* a fetch has an outcome exactly when the refresh r issues it
FetchesOf(r, info_fetch, status_fetch) ==
    /\ (info_fetch = NoFetch) = ("info" \notin r.fetched)
    /\ (status_fetch = NoFetch) = ("status" \notin r.fetched)

\* the time of the last fetch of each kind that the refresh stored
FetchedAtAfter(r, now) ==
    [k \in {"info", "status"} |->
        IF k \in r.stored THEN Fin(now) ELSE fetched_at[k]]

\* what is recorded of an operation that refreshed the caches with result r
FeedResponse(op, r) ==
    [op |-> op, at |-> wall, before |-> gbfs, log_before |-> fetched_at,
     entered |-> r.entered, fetched |-> r.fetched, failed |-> r.failed,
     stored |-> r.stored, refresh_raised |-> r.raised, raised |-> r.raised,
     found |-> FALSE, gbfs_available |-> FALSE, health |-> "",
     is_loaded |-> models_loaded, station_code |-> <<>>, data |-> <<>>]

\* GBFSService.get_station_data: get_station_info refreshes the caches;
\* the refresh of get_station_status, at the same instant, finds them valid
GetStationDataCall(station_code, info_fetch, status_fetch) ==
    /\ Idle
    /\ phase = "serving"
    /\ LET r == RefreshCache(gbfs, wall, info_fetch, status_fetch)
       IN  /\ FetchesOf(r, info_fetch, status_fetch)
           /\ gbfs' = r.g
           /\ fetched_at' = FetchedAtAfter(r, wall)
           /\ last' = [FeedResponse("station_data", r) EXCEPT
                        !.station_code = station_code,
                        !.found = r.raised = ""
                                  /\ GetStationData(r.g, station_code).found,
                        !.data = IF r.raised # "" THEN <<>>
                                 ELSE GetStationData(r.g, station_code).data]
    /\ UNCHANGED <<raw_snapshots, tables, scheduler, gbfs_collector, aside>>
    /\ UNCHANGED <<clock, phase, xgboost_models, models_loaded, store,
                   parquet_cache, saves, wall>>

\* the route GET /health: health_check with the is_available it awaits
HealthCheck(info_fetch, status_fetch) ==
    /\ Idle
    /\ phase = "serving"
    /\ LET r == RefreshCache(gbfs, wall, info_fetch, status_fetch)
           a == IsAvailable(r)
       IN  /\ FetchesOf(r, info_fetch, status_fetch)
           /\ gbfs' = r.g
           /\ fetched_at' = FetchedAtAfter(r, wall)
           /\ last' = [FeedResponse("health", r) EXCEPT
                        !.raised = a.raised,
                        !.gbfs_available = a.value,
                        !.health = IF a.raised # "" THEN ""
                                   ELSE HealthStatus(models_loaded, a.value)]
    /\ UNCHANGED <<raw_snapshots, tables, scheduler, gbfs_collector, aside>>
    /\ UNCHANGED <<clock, phase, xgboost_models, models_loaded, store,
                   parquet_cache, saves, wall>>

\* the wall clock advances
Advance ==
    /\ Idle
    /\ \E t \in FeedTimes : t > wall /\ wall' = t
    /\ last' = last
    /\ UNCHANGED <<raw_snapshots, tables, scheduler, gbfs_collector, aside>>
    /\ UNCHANGED <<clock, phase, xgboost_models, models_loaded, store,
                   parquet_cache, saves, gbfs, fetched_at>>

NextFeed ==
    \/ Return
    \/ \E files \in {{}, Horizons} : LoadModels(files, NoHolidays, 0)
    \/ Advance
    \/ \E c \in RequestCodes, fi \in InfoFetches \cup {NoFetch},
          fs \in StatusFetches \cup {NoFetch} :
            GetStationDataCall(c, fi, fs)
    \/ \E fi \in InfoFetches \cup {NoFetch},
          fs \in StatusFetches \cup {NoFetch} :
            HealthCheck(fi, fs)

SpecFeed == Init /\ [][NextFeed]_vars

---------------------------------------------------------------------------
(* _resolve_station_id on its own: every map of at most two short names    *)
(* over the codes of at most MaxCodeLen binary digits, and every code.     *)

MaxCodeLen == 4

Codes == UNION {[1..n -> {0, 1}] : n \in 1..MaxCodeLen}

ShortNameMaps ==
    UNION {[keys -> {"a", "b"}] : keys \in {{c, d} : c, d \in Codes} \cup {{}}}

InitResolve ==
    /\ clock = StartTime
    /\ phase = "serving"
    /\ xgboost_models = {}
    /\ models_loaded = FALSE
    /\ store = {}
    /\ parquet_cache = {}
    /\ saves = 0
    /\ gbfs \in {[NewGbfsService EXCEPT !.short_name_to_id = m] :
                    m \in ShortNameMaps}
    /\ wall = 0
    /\ fetched_at = NeverFetched
    /\ raw_snapshots = {}
    /\ tables = NoTables
    /\ scheduler = [running |-> FALSE, jobs |-> {}, done |-> {}]
    /\ gbfs_collector = [enabled |-> TRUE, http_client |-> FALSE]
    /\ feedback_rate_limit = <<>>
    /\ feedback_log = <<>>
    /\ tasks = {}
    /\ statistics = NewStatistics
    /\ history_cache = {}
    /\ last = NoResponse

\* a call of _resolve_station_id
ResolveStationIdCall(station_code) ==
    /\ Idle
    /\ last' = [op |-> "resolve", station_code |-> station_code,
                result |-> ResolveStationId(gbfs.short_name_to_id,
                                            station_code)]
    /\ UNCHANGED <<raw_snapshots, tables, scheduler, gbfs_collector, aside>>
    /\ UNCHANGED <<clock, phase, xgboost_models, models_loaded, store,
                   parquet_cache, saves, feed>>

NextResolve ==
    \/ Return
    \/ \E c \in Codes : ResolveStationIdCall(c)

SpecResolve == InitResolve /\ [][NextResolve]_vars

---------------------------------------------------------------------------
(* Properties of _resolve_station_id, checked under SpecResolve.           *)

\* the codes that differ from c only in their leading zeros
ZeroVariants(c) == {v \in Codes : LStripZeros(v) = LStripZeros(c)}

\* C7: for every map and every code c, _resolve_station_id returns the same
\* result for c, for c without its leading zeros and for c padded with any
\* number of leading zeros.
C7_LeadingZerosDoNotMatter ==
    last.op = "resolve" =>
        \A v \in ZeroVariants(last.station_code) :
            ResolveStationId(gbfs.short_name_to_id, v) = last.result

---------------------------------------------------------------------------
(* Properties of the feed cache, checked under SpecFeed.                   *)

\* an operation that called _refresh_cache has just returned
Refreshed == last.op \in {"station_data", "health"}

\* by the history of stored fetches, the cache of this kind has expired at
\* the time of the call
Expired(kind, ttl) ==
    \/ last.log_before[kind] = None
    \/ last.at - last.log_before[kind].v >= ttl

\* C8: when the fetch of a refresh fails the error leaves the refresh, and
\* the cache of that kind, the map of short names and the timestamp of that
\* kind are what they were before the call.
C8_FailedFetchKeepsCache ==
    Refreshed =>
        /\ ("info" \in last.failed =>
                /\ last.refresh_raised = "HTTPError"
                /\ gbfs = last.before)
        /\ ("status" \in last.failed =>
                /\ last.refresh_raised = "HTTPError"
                /\ gbfs.status_cache = last.before.status_cache
                /\ gbfs.status_timestamp = last.before.status_timestamp
                /\ ("info" \notin last.fetched => gbfs = last.before))
        /\ (last.op = "station_data" => last.raised = last.refresh_raised)

\* the information fetch fails on a service that holds stations
C8_Witness ==
    /\ Refreshed
    /\ "info" \in last.failed
    /\ DOMAIN last.before.info_cache # {}
    /\ DOMAIN last.before.short_name_to_id # {}
    /\ last.before.info_timestamp # None

\* C9: a refresh of a kind fetches exactly when no fetch of that kind has
\* been stored yet or the last one is at least the TTL of the kind old
\* (86400 s for the information, 60 s for the status), and each kind has a
\* timestamp of its own, set by the stored fetches of that kind alone.
C9_FetchExactlyOnExpiry ==
    Refreshed =>
        /\ ("info" \in last.entered =>
                ("info" \in last.fetched) = Expired("info", 86400))
        /\ ("status" \in last.entered =>
                ("status" \in last.fetched) = Expired("status", 60))
        /\ gbfs.info_timestamp =
                IF "info" \in last.stored THEN Fin(last.at)
                ELSE last.before.info_timestamp
        /\ gbfs.status_timestamp =
                IF "status" \in last.stored THEN Fin(last.at)
                ELSE last.before.status_timestamp

\* a call that fetches the status, expired after exactly 60 s, and not the
\* information, fetched earlier and still valid
C9_Witness ==
    /\ Refreshed
    /\ last.fetched = {"status"}
    /\ last.log_before.info # None
    /\ last.log_before.status # None
    /\ last.at - last.log_before.status.v = 60
    /\ last.log_before.info # last.log_before.status

\* C10: is_available never raises, returns false when a fetch fails and true
\* only with a non-empty status cache; the health endpoint answers, with
\* status healthy exactly when the models are loaded and the feed is
\* available, and degraded otherwise.
C10_HealthAlwaysAnswers ==
    last.op = "health" =>
        /\ last.raised = ""
        /\ (last.failed # {} => ~last.gbfs_available)
        /\ (last.refresh_raised # "" => ~last.gbfs_available)
        /\ (last.gbfs_available => DOMAIN gbfs.status_cache # {})
        /\ last.health \in {"healthy", "degraded"}
        /\ (last.health = "healthy") =
                (/\ models_loaded
                 /\ last.refresh_raised = ""
                 /\ DOMAIN gbfs.status_cache # {})

\* a health check with loaded models whose status fetch fails while the
\* status cache holds stations
C10_Witness ==
    /\ last.op = "health"
    /\ models_loaded
    /\ "status" \in last.failed
    /\ DOMAIN gbfs.status_cache # {}
    /\ last.health = "degraded"

\* the identifier that the code of the last get_station_data resolves to
ResolvedId == ResolveStationId(gbfs.short_name_to_id, last.station_code)

\* the code of the last get_station_data resolves to an identifier that the
\* information cache and the status cache both hold
InBothCaches ==
    /\ ResolvedId # "None"
    /\ ResolvedId \in DOMAIN gbfs.info_cache
    /\ ResolvedId \in DOMAIN gbfs.status_cache

---------------------------------------------------------------------------
(* The order of the forms that _resolve_station_id tries, checked under    *)
(* SpecResolve.                                                            *)

\* the three forms of the code of the last call, in the order of the claim
FormsTried ==
    <<last.station_code, ZFill(last.station_code, 3),
      Stripped(last.station_code)>>

\* the forms that are keys of the map
FormsFound ==
    {i \in DOMAIN FormsTried : FormsTried[i] \in DOMAIN gbfs.short_name_to_id}

\* C26: _resolve_station_id returns the identifier of the first of the
\* exact code, the code zero-padded to 3 digits and the code with its
\* leading zeros stripped that is a key of the map, and returns None
\* exactly when none of the three is a key.
C26_FirstFormFoundWins ==
    last.op = "resolve" =>
        /\ (last.result = "None") = (FormsFound = {})
        /\ \A i \in FormsFound :
                (\A j \in FormsFound : i <= j) =>
                    last.result = gbfs.short_name_to_id[FormsTried[i]]

\* the exact code is no key, the padded and the stripped forms are keys of
\* different stations, and the station of the padded form was returned
PaddedBeforeStripped ==
    /\ last.op = "resolve"
    /\ FormsFound = {2, 3}
    /\ gbfs.short_name_to_id[FormsTried[2]]
            # gbfs.short_name_to_id[FormsTried[3]]
    /\ last.result = gbfs.short_name_to_id[FormsTried[2]]

---------------------------------------------------------------------------
(* The two refreshes of _refresh_cache, checked under SpecFeed.            *)

\* the status cache had expired when the operation began
StatusExpired ==
    ~CacheValid(last.before.status_timestamp, last.at,
                StationStatusTtlSeconds)

\* the information refresh fetched and raised: the fetch failed or the loop
\* over the stations raised
InfoRefreshRaised == "info" \in last.fetched /\ "info" \notin last.stored

\* the information cache holds what this call stored
InfoRefreshKept ==
    /\ gbfs.info_timestamp = Fin(last.at)
    /\ "info" \in last.stored

\* C27: a combined refresh attempts the status refresh whenever the status
\* TTL has expired, whether the information refresh of the same call was
\* skipped, succeeded or failed, and a failed status refresh does not undo
\* the information refresh.
C27_StatusRefreshedWheneverExpired ==
    Refreshed =>
        /\ StatusExpired => "status" \in last.fetched
        /\ ("info" \in last.stored /\ "status" \in last.failed) =>
                InfoRefreshKept

\* the status refresh is attempted exactly when the status TTL has expired
\* and the information refresh of the same call did not raise; after an
\* information refresh that raised it is not entered; a failed status
\* refresh leaves the information refresh in place
StatusRefreshedUnlessInfoRaised ==
    Refreshed =>
        /\ ("status" \in last.fetched) =
                (StatusExpired /\ ~InfoRefreshRaised)
        /\ InfoRefreshRaised => "status" \notin last.entered
        /\ ("info" \in last.stored /\ "status" \in last.failed) =>
                /\ InfoRefreshKept
                /\ gbfs.status_cache = last.before.status_cache

\* the information fetch failed while the status cache, filled earlier, had
\* expired: the status refresh was not attempted
StatusSkippedAfterInfoFailure ==
    /\ Refreshed
    /\ "info" \in last.failed
    /\ last.before.status_timestamp # None
    /\ StatusExpired
    /\ "status" \notin last.entered

\* the information was stored and the status fetch failed
InfoStoredStatusFailed ==
    /\ Refreshed
    /\ "info" \in last.stored
    /\ "status" \in last.failed

---------------------------------------------------------------------------
(* Lag resolution on its own: _load_gbfs_data on every frame that holds,   *)
(* for each lag offset, no snapshot or one snapshot of the station, and    *)
(* LagsService.get_lags_for_station on every directory of raw snapshots.   *)

\* LagsService.lag_intervals, in minutes
LagIntervals == <<10, 20, 30, 60, 120, 1440>>

\* mexico_offset of get_lags_for_station: timedelta(hours=-6)
MexicoOffsetMin == 6 * 60

\* _load_snapshot: the stations of the file of minute dt, None without file
LoadSnapshot(raw, dt) ==
    IF \E f \in raw : f.t = dt
    THEN [found |-> TRUE, stations |-> (CHOOSE f \in raw : f.t = dt).stations]
    ELSE [found |-> FALSE, stations |-> <<>>]

\* _get_bikes_from_snapshot, after the test "if snapshot" of its caller
GetBikesFromSnapshot(snapshot, station_id) ==
    IF ~snapshot.found \/ DOMAIN snapshot.stations = {} THEN None
    ELSE IF station_id \notin DOMAIN snapshot.stations THEN None
    ELSE DictGet(snapshot.stations[station_id], "num_bikes_available", None)

\* lines 125-137 of get_lags_for_station: the bikes of each lag's snapshot
LagsFromSnapshots(raw, station_id, current_time_mx) ==
    [i \in 1..Len(LagIntervals) |->
        GetBikesFromSnapshot(
            LoadSnapshot(raw, current_time_mx - LagIntervals[i]), station_id)]

\* LagsService.get_lags_for_station
GetLagsForStation(raw, station_id, current_time, current_bikes) ==
    LET lags == LagsFromSnapshots(raw, station_id,
                                  current_time - MexicoOffsetMin)
    IN  IF current_bikes # None
        THEN [i \in DOMAIN lags |->
                IF lags[i] = None THEN current_bikes ELSE lags[i]]
        ELSE lags

\* the reference time of the lag lookups: the last of the time points
LagsNow == CHOOSE t \in TimePoints : \A u \in TimePoints : u <= t

LagStation == <<0, 0, 1>>

\* for each lag offset the bikes of the snapshot taken at that offset before
\* LagsNow, -1 for no snapshot
SlotChoices == {-1, 0, MaxBikes}

\* the snapshot rows of the station for one choice per lag offset
FrameOf(c) ==
    {[t |-> LagsNow - LagMinutes[i], code |-> LagStation, bikes |-> c[i],
      cap |-> MaxCap] : i \in {j \in DOMAIN c : c[j] # -1}}

\* the raw snapshot files for one choice per lag interval
RawDirOf(c) ==
    {[t |-> LagsNow - LagIntervals[i],
      stations |-> [id \in {"a"} |->
                        [station_id |-> id,
                         num_bikes_available |-> Fin(c[i])]]] :
        i \in {j \in DOMAIN c : c[j] # -1}}

\* the reference times of the calls: on the snapshots, at the edge of the
\* tolerance, and beyond it
LagCallTimes == {LagsNow, LagsNow + ToleranceMin, LagsNow + ToleranceMin + 1}

InitLags ==
    /\ clock = LagsNow
    /\ phase = "serving"
    /\ xgboost_models = {}
    /\ models_loaded = FALSE
    /\ \/ \E c \in [DOMAIN LagMinutes -> SlotChoices], other \in BOOLEAN :
            \* with or without a row of another station in the day's file
            /\ store = FrameOf(c) \cup
                    {[t |-> LagsNow, code |-> <<0, 0, 2>>, bikes |-> 0,
                      cap |-> MaxCap] : x \in {o \in {other} : o}}
            /\ raw_snapshots = {}
       \/ \E c \in [DOMAIN LagIntervals -> SlotChoices] :
            /\ store = {}
            /\ raw_snapshots = RawDirOf(c)
    /\ tables = NoTables
    /\ scheduler = [running |-> FALSE, jobs |-> {}, done |-> {}]
    /\ gbfs_collector = [enabled |-> TRUE, http_client |-> FALSE]
    /\ feedback_rate_limit = <<>>
    /\ feedback_log = <<>>
    /\ tasks = {}
    /\ statistics = NewStatistics
    /\ history_cache = {}
    /\ parquet_cache = {}
    /\ saves = 0
    /\ gbfs = NewGbfsService
    /\ wall = 0
    /\ fetched_at = NeverFetched
    /\ last = NoResponse

\* a call of PredictorService._load_gbfs_data with reference time t
LoadGbfsDataCall(station_code, t) ==
    /\ Idle
    /\ last' = [op |-> "load_gbfs", station_code |-> station_code, t |-> t,
                result |-> LoadGbfsData(ExistingFiles(store),
                                        CachedRead(parquet_cache, store),
                                        station_code, t)]
    /\ parquet_cache' = CacheAfterRead(parquet_cache, store, t)
    /\ UNCHANGED <<raw_snapshots, tables, scheduler, gbfs_collector, aside>>
    /\ UNCHANGED <<clock, phase, xgboost_models, models_loaded, store, saves,
                   feed>>

\* a call of LagsService.get_lags_for_station
GetLagsForStationCall(station_id, current_time, current_bikes) ==
    /\ Idle
    /\ last' = [op |-> "get_lags", station_id |-> station_id,
                current_time |-> current_time,
                current_bikes |-> current_bikes,
                result |-> GetLagsForStation(raw_snapshots, station_id,
                                             current_time, current_bikes)]
    /\ UNCHANGED <<raw_snapshots, tables, scheduler, gbfs_collector, aside>>
    /\ UNCHANGED <<clock, phase, xgboost_models, models_loaded, store,
                   parquet_cache, saves, feed>>

NextLags ==
    \/ Return
    \/ \E t \in LagCallTimes : LoadGbfsDataCall(LagStation, t)
    \/ \E t \in {LagsNow, LagsNow + 1},
          b \in {None} \cup {Fin(n) : n \in Bikes} :
            GetLagsForStationCall("a", t + MexicoOffsetMin, b)

SpecLags == InitLags /\ [][NextLags]_vars

---------------------------------------------------------------------------
(* Properties of lag resolution, checked under SpecLags.                   *)

\* C12: every result of lag resolution is a lag set with a value that is not
\* None for every lag key (returned with SUCCESS by _load_gbfs_data, or
\* returned by get_lags_for_station), or no lag set with a code other than
\* SUCCESS; a lag set holding None is never returned.
C12_LagSetCompleteOrFailure ==
    /\ last.op = "load_gbfs" =>
        IF last.result.ok
        THEN /\ last.result.code = SUCCESS
             /\ \A i \in DOMAIN last.result.lags : last.result.lags[i] # None
        ELSE last.result.code # SUCCESS
    /\ last.op = "get_lags" =>
        \A i \in DOMAIN last.result : last.result[i] # None

\* the rows of the frame of the last _load_gbfs_data that match lag i
MatchesOfLag(i) ==
    {r \in store : /\ r.code = last.station_code
                   /\ r.t >= last.t - LagMinutes[i] - 5
                   /\ r.t <= last.t - LagMinutes[i] + 5}

\* the nearest offset more recent than that of lag i that has a snapshot
NearestMoreRecent(i) ==
    CHOOSE j \in 1..(i - 1) :
        /\ MatchesOfLag(j) # {}
        /\ \A k \in (j + 1)..(i - 1) : MatchesOfLag(k) = {}

\* C13: in a lag set that _load_gbfs_data returns, a lag whose offset has a
\* snapshot within tolerance is the occupancy of one of the matching
\* snapshots, and a lag whose offset has none is the value of the nearest
\* more recent offset that has one; no value comes from an older offset.
C13_ForwardFillFromMoreRecent ==
    (last.op = "load_gbfs" /\ last.result.ok) =>
        \A i \in DOMAIN LagMinutes :
            IF MatchesOfLag(i) # {}
            THEN \E r \in MatchesOfLag(i) :
                    last.result.lags[i] = Ocu(r.bikes, r.cap)
            ELSE /\ i > 1
                 /\ last.result.lags[i] = last.result.lags[NearestMoreRecent(i)]

\* the scenario of the specification: the 120-minute offset has no snapshot,
\* the 60-minute and 10-minute offsets have, with different occupancies,
\* and an older offset has an occupancy different from the 60-minute one
C13_Witness ==
    /\ last.op = "load_gbfs"
    /\ last.result.ok
    /\ MatchesOfLag(5) = {}
    /\ MatchesOfLag(4) # {}
    /\ MatchesOfLag(2) # {}
    /\ MatchesOfLag(6) # {}
    /\ last.result.lags[4] # last.result.lags[2]
    /\ last.result.lags[6] # last.result.lags[4]
    /\ last.result.lags[5] = last.result.lags[4]

---------------------------------------------------------------------------
(* When lag resolution fails, checked under SpecLags.                      *)

\* the offsets of the last _load_gbfs_data that have a snapshot in tolerance
ResolvedOffsets == {i \in DOMAIN LagMinutes : MatchesOfLag(i) # {}}

\* the lags that get_lags_for_station found in the raw snapshots
FoundInSnapshots ==
    LagsFromSnapshots(raw_snapshots, last.station_id,
                      last.current_time - MexicoOffsetMin)

\* C25: lag resolution fails with INSUFFICIENT_DATA only when no offset can
\* be resolved and no current value is available; when at least one offset
\* has a snapshot within tolerance, or a current value was supplied, it
\* returns a complete lag set.
C25_FailsOnlyWithNothingResolved ==
    /\ last.op = "load_gbfs" =>
        /\ last.result.code = INSUFFICIENT_DATA => ResolvedOffsets = {}
        /\ ResolvedOffsets # {} =>
                /\ last.result.ok
                /\ \A i \in DOMAIN LagMinutes : last.result.lags[i] # None
    /\ last.op = "get_lags" =>
        ((\/ last.current_bikes # None
          \/ \E i \in DOMAIN FoundInSnapshots : FoundInSnapshots[i] # None)
            => \A i \in DOMAIN last.result : last.result[i] # None)

\* _load_gbfs_data fails with INSUFFICIENT_DATA exactly when no file of the
\* two dates exists or the files hold rows of the station but none within
\* tolerance of the reference time itself; with such a row it returns a
\* complete lag set; get_lags_for_station returns a complete lag set when
\* a current value was supplied
CurrentSnapshotDecides ==
    /\ last.op = "load_gbfs" =>
        /\ (last.result.code = INSUFFICIENT_DATA) =
                (\/ {DateOf(last.t), DateOf(last.t) - 1}
                        \cap ExistingFiles(store) = {}
                 \/ /\ \E r \in store : r.code = last.station_code
                    /\ 1 \notin ResolvedOffsets)
        /\ 1 \in ResolvedOffsets =>
                /\ last.result.ok
                /\ \A i \in DOMAIN LagMinutes : last.result.lags[i] # None
    /\ (last.op = "get_lags" /\ last.current_bikes # None) =>
            \A i \in DOMAIN last.result : last.result[i] # None

\* older offsets have a snapshot, the reference time has none, and the
\* lookup failed
FailedWithOlderSnapshots ==
    /\ last.op = "load_gbfs"
    /\ last.result.code = INSUFFICIENT_DATA
    /\ ResolvedOffsets # {}
    /\ 1 \notin ResolvedOffsets

---------------------------------------------------------------------------
(* predict_xgboost on its own: load_models reads tables with or without    *)
(* the station, and predict_xgboost runs at noon of day 1 on snapshot      *)
(* files that hold a current row and up to three older rows of the         *)
(* station.                                                                *)

\* 12:00 of day 1
Noon == MinutesPerDay + MinutesPerDay \div 2

\* the names of the static features, in the order of FEATURE_COLS
EnrichedCols == SubSeq(FEATURE_COLS, 20, 34)
ActivityCols == SubSeq(FEATURE_COLS, 35, 36)
WeatherCols == SubSeq(FEATURE_COLS, 37, 42)

\* a row of 1_stations_enriched.parquet: feature i has the value 100 + i,
\* the capacity is MaxCap + 1
FullEnriched ==
    [name \in {EnrichedCols[i] : i \in DOMAIN EnrichedCols} \cup {"capacity"} |->
        IF name = "capacity" THEN Fin(MaxCap + 1)
        ELSE Fin(100 + CHOOSE i \in DOMAIN EnrichedCols : EnrichedCols[i] = name)]

\* the row without one of its columns
Without(row, name) == [n \in (DOMAIN row) \ {name} |-> row[n]]

\* what 1_stations_enriched.parquet can hold: nothing (or no file), the row
\* of another station, the full row of the station, the row with a missing
\* value, or the row without one column
EnrichedTables ==
    {<<>>, [c \in {<<0, 0, 2>>} |-> FullEnriched]} \cup
    {[c \in {LagStation} |-> row] :
        row \in {FullEnriched, [FullEnriched EXCEPT !["utm_x"] = NaN]} \cup
                {Without(FullEnriched, name) : name \in DOMAIN FullEnriched}}

FullActivity ==
    [station_netflow_rate |-> Fin(7), station_turnover_rate |-> Fin(8)]

\* what 2_stations_activity_features.parquet can hold for the station at a
\* weekday and hour: nothing, the row of another hour, the full row, the row
\* without one column
ActivityTables ==
    {<<>>,
     [k \in {<<LagStation, WeekdayOf(Noon), HourOf(Noon) + 1>>} |->
        FullActivity]} \cup
    {[k \in {<<LagStation, WeekdayOf(Noon), HourOf(Noon)>>} |-> row] :
        row \in {FullActivity,
                 Without(FullActivity, "station_netflow_rate")}}

\* the three files with the full rows of the station and a calendar
\* without the day
FullTables ==
    [NoTables EXCEPT !.stations_enriched = [c \in {LagStation} |-> FullEnriched],
                     !.station_activity =
                        [k \in {<<LagStation, WeekdayOf(Noon), HourOf(Noon)>>}
                            |-> FullActivity],
                     !.holidays_dated = TRUE]

\* what load_models can find on disk: no file at all, the full tables, and
\* the full tables with another enrichment table, another activity table,
\* a calendar that lists the day, or no calendar
TableFiles ==
    {NoTables, FullTables} \cup
    {[FullTables EXCEPT !.stations_enriched = e] : e \in EnrichedTables} \cup
    {[FullTables EXCEPT !.station_activity = a] : a \in ActivityTables} \cup
    {[FullTables EXCEPT !.holidays = {DateOf(Noon)}],
     [FullTables EXCEPT !.holidays_dated = FALSE],
     [NoTables EXCEPT !.holidays_dated = TRUE]}

\* the snapshot rows of the station: at Noon with bikes b0 and capacity c0,
\* and for each older offset of older (a set of lag indexes) a row with the
\* bikes and capacity that rows gives it
NoonFrame(b0, c0, older, rows) ==
    {[t |-> Noon, code |-> LagStation, bikes |-> b0, cap |-> c0]} \cup
    {[t |-> Noon - LagMinutes[i], code |-> LagStation, bikes |-> rows[i][1],
      cap |-> rows[i][2]] : i \in older}

\* the older rows: 10 minutes back empty or with capacity 0, 60 minutes back
\* full, 1440 minutes back empty
OlderRows ==
    {[i \in {2, 4, 7} |-> IF i = 2 THEN r ELSE IF i = 4
                          THEN <<MaxBikes, MaxCap>> ELSE <<0, MaxCap>>] :
        r \in {<<0, MaxCap>>, <<MaxBikes, 0>>}}

NoonFrames ==
    {NoonFrame(b0, c0, older, rows) :
        b0 \in {0, MaxBikes}, c0 \in {0, MaxCap},
        older \in {{}, {2}, {2, 4, 7}}, rows \in OlderRows}

\* the stores in which the station has no row: no file at all, or a file
\* with a row of another station
LackingFrames ==
    {{}, {[t |-> Noon, code |-> <<0, 0, 2>>, bikes |-> 0, cap |-> MaxCap]}}

\* the weather of a request: finite, with a NaN, with an infinity
FeatureWeathers ==
    Weathers \cup {[FiniteWeather EXCEPT !.surface_pressure = PInf]}

InitFeatures ==
    /\ clock = Noon
    /\ phase = "startup"
    /\ xgboost_models = {}
    /\ models_loaded = FALSE
    /\ store \in NoonFrames \cup LackingFrames
    /\ parquet_cache = {}
    /\ saves = 0
    /\ gbfs = NewGbfsService
    /\ wall = 0
    /\ fetched_at = NeverFetched
    /\ raw_snapshots = {}
    /\ tables = NoTables
    /\ scheduler = [running |-> FALSE, jobs |-> {}, done |-> {}]
    /\ gbfs_collector = [enabled |-> TRUE, http_client |-> FALSE]
    /\ feedback_rate_limit = <<>>
    /\ feedback_log = <<>>
    /\ tasks = {}
    /\ statistics = NewStatistics
    /\ history_cache = {}
    /\ last = NoResponse

\* a call of PredictorService.predict_xgboost at the time of the clock
PredictXgboostCall(station_code, weather, out) ==
    /\ Idle
    /\ phase = "serving"
    /\ last' = [op |-> "xgb", station_code |-> station_code,
                weather |-> weather,
                g |-> LoadGbfsData(ExistingFiles(store),
                                   CachedRead(parquet_cache, store),
                                   station_code, clock),
                r |-> PredictXgboost(models_loaded, xgboost_models, tables,
                                     ExistingFiles(store),
                                     CachedRead(parquet_cache, store),
                                     station_code, weather, clock, out)]
    /\ parquet_cache' = IF models_loaded
                        THEN CacheAfterRead(parquet_cache, store, clock)
                        ELSE parquet_cache
    /\ UNCHANGED <<raw_snapshots, tables, scheduler, gbfs_collector, aside>>
    /\ UNCHANGED <<clock, phase, xgboost_models, models_loaded, store, saves,
                   feed>>

NextFeatures ==
    \/ Return
    \/ /\ phase = "startup"
       /\ \E files \in {{}, {20, 60}, Horizons}, found \in TableFiles :
            LoadModels(files, found, 0)
    \/ /\ phase = "serving"
       /\ \E w \in FeatureWeathers,
             out \in OutcomeChoices(xgboost_models, clock) :
            PredictXgboostCall(LagStation, w, out)

SpecFeatures == InitFeatures /\ [][NextFeatures]_vars

---------------------------------------------------------------------------
(* Properties of the feature vector, checked under SpecFeatures.           *)

\* predict_xgboost has just returned or raised
XgbCalled == last.op = "xgb"

\* the horizons whose loaded regressor was given the feature vector
Invoked == {h \in Horizons : last.r.preds[h].invoked}

\* the lags and the weather that the last call assembled
AssembledInputs ==
    {last.g.lags[i] : i \in DOMAIN LagNames} \cup
    {last.weather[WeatherCols[i]] : i \in DOMAIN WeatherCols}

\* C14: a feature vector is passed to a model's predict only if it has
\* exactly 42 elements and every element is finite; a call whose lags or
\* weather hold a NaN or an infinity ends with INVALID_FEATURES and invokes
\* no model.
C14_OnlyFiniteVectorsReachModel ==
    XgbCalled =>
        /\ (Invoked # {} =>
                /\ Len(last.r.X) = 42
                /\ \A i \in DOMAIN last.r.X : IsFinite(last.r.X[i]))
        /\ ((/\ models_loaded
             /\ last.g.ok
             /\ tables.holidays_dated
             /\ \E x \in AssembledInputs : ~IsFinite(x)) =>
                /\ last.r.code = INVALID_FEATURES
                /\ Invoked = {})

\* the row of the station in the enrichment table, <<>> without one
EnrichedRow ==
    IF last.station_code \in DOMAIN tables.stations_enriched
    THEN tables.stations_enriched[last.station_code] ELSE <<>>

\* the row of the station, weekday and hour in the activity table
ActivityRow ==
    IF <<last.station_code, WeekdayOf(clock), HourOf(clock)>>
        \in DOMAIN tables.station_activity
    THEN tables.station_activity[
            <<last.station_code, WeekdayOf(clock), HourOf(clock)>>]
    ELSE <<>>

\* the default value of a static feature, in the units of the model (ids_300m
\* in halves)
DefaultOf(name) ==
    CASE name = "transit_nearest_station_m" -> Fin(500)
      [] name = "transit_stations_300m" -> Fin(1)
      [] name = "ids_population_300m" -> Fin(10000)
      [] name = "ids_300m" -> Fin(1)
      [] name = "utm_x" -> Fin(485000)
      [] name = "utm_y" -> Fin(2150000)
      [] name = "capacity" -> Fin(last.g.capacity)
      [] OTHER -> Fin(0)

\* the lag that each trend subtracts from the current occupancy
TrendLag ==
    [ocu_trend_1 |-> 2, ocu_trend_2 |-> 3, ocu_trend_6 |-> 4,
     ocu_trend_12 |-> 5]

\* the value of the feature of this name for the last call
FeatureNamed(name) ==
    IF \E k \in DOMAIN LagNames : LagNames[k] = name
    THEN last.g.lags[CHOOSE k \in DOMAIN LagNames : LagNames[k] = name]
    ELSE IF name \in DOMAIN TrendLag
    THEN FSub(last.g.lags[1], last.g.lags[TrendLag[name]])
    ELSE IF name \in DOMAIN CalculateTemporalFeatures(clock, tables.holidays)
    THEN CalculateTemporalFeatures(clock, tables.holidays)[name]
    ELSE IF name \in DOMAIN last.weather THEN last.weather[name]
    ELSE IF name \in DOMAIN ActivityRow THEN ActivityRow[name]
    ELSE IF name \in DOMAIN EnrichedRow THEN EnrichedRow[name]
    ELSE DefaultOf(name)

\* the names at the positions first..lastp of FEATURE_COLS
ColsAt(first, lastp) == {FEATURE_COLS[i] : i \in first..lastp}

\* C15: for every position i, element i of the vector built by
\* _assemble_features is the value of the feature named FEATURE_COLS[i], and
\* FEATURE_COLS lists the occupancy and 6 lags, 4 trends, 6 temporal
\* features, the capacity, the operating flag, 9 POI counts, 2 transit, 2
\* demographic, 2 coordinate, 2 flow and 6 weather features, in this order.
C15_ElementsFollowFeatureCols ==
    /\ Len(FEATURE_COLS) = 42
    /\ SubSeq(FEATURE_COLS, 1, 7) = LagNames
    /\ ColsAt(8, 11) = DOMAIN TrendLag
    /\ ColsAt(12, 17) =
        {"time_sin", "time_cos", "day_sin", "day_cos", "is_weekend",
         "is_holiday"}
    /\ FEATURE_COLS[18] = "capacity"
    /\ FEATURE_COLS[19] = "is_operating"
    /\ ColsAt(20, 28) =
        {"commerce_pois_300m", "finance_pois_300m", "culture_pois_300m",
         "education_pois_300m", "sport_recreation_pois_300m",
         "hotels_pois_300m", "food_pois_300m", "health_pois_300m",
         "drink_pois_300m"}
    /\ ColsAt(29, 30) = {"transit_nearest_station_m", "transit_stations_300m"}
    /\ ColsAt(31, 32) = {"ids_population_300m", "ids_300m"}
    /\ ColsAt(33, 34) = {"utm_x", "utm_y"}
    /\ ColsAt(35, 36) = {"station_netflow_rate", "station_turnover_rate"}
    /\ ColsAt(37, 42) = DOMAIN FiniteWeather
    /\ ((XgbCalled /\ last.r.X # <<>>) =>
            \A i \in DOMAIN FEATURE_COLS :
                last.r.X[i] = FeatureNamed(FEATURE_COLS[i]))

\* a vector built from the full rows of the station in both tables, on a
\* holiday, from lags that differ
C15_Witness ==
    /\ XgbCalled
    /\ last.r.X # <<>>
    /\ DOMAIN EnrichedRow = DOMAIN FullEnriched
    /\ DOMAIN ActivityRow = DOMAIN FullActivity
    /\ DateOf(clock) \in tables.holidays
    /\ last.g.lags[1] # last.g.lags[2]
    /\ last.g.lags[4] # last.g.lags[7]
    /\ last.r.X[18] = Fin(MaxCap + 1)

\* the static features that the tables do not give for the last call
MissingCols ==
    {name \in (ColsAt(20, 36) \cup {"capacity"}) :
        name \notin (DOMAIN EnrichedRow) \cup (DOMAIN ActivityRow)}

\* the values that the last call takes from the snapshots, the request and
\* the tables hold no NaN
NoNaNInput ==
    /\ \A x \in AssembledInputs : ~IsNaN(x)
    /\ ~IsNaN(FSub(last.g.lags[1], last.g.lags[2]))
    /\ ~IsNaN(FSub(last.g.lags[1], last.g.lags[4]))
    /\ \A name \in DOMAIN EnrichedRow : ~IsNaN(EnrichedRow[name])
    /\ \A name \in DOMAIN ActivityRow : ~IsNaN(ActivityRow[name])

OcuActual == last.g.lags[1]

\* the last call reached the loop over the horizons and the try block of
\* some horizon raised
SomeHorizonRaised ==
    /\ XgbCalled
    /\ last.r.X # <<>>
    /\ \E h \in Horizons : last.r.preds[h].raised

\* predict_xgboost returned SUCCESS, the horizons that raised hold the
\* current occupancy and the others the prediction of their own model
FallbackPerHorizon ==
    /\ ~last.r.exc
    /\ last.r.code = SUCCESS
    /\ \A h \in Horizons :
        LET p == last.r.preds[h]
        IN  /\ p.called
            /\ h \notin xgboost_models => p.raised
            /\ p.raised =>
                /\ p.occ = OcuActual
                /\ IsFinite(OcuActual)
                /\ p.bikes = BikesOf(OcuActual, last.r.capacity)
            /\ ~p.raised =>
                /\ p.invoked
                /\ p.occ = Clip01(FAdd(OcuActual, Fin(p.delta)))
                /\ p.bikes = BikesOf(p.occ, last.r.capacity)

\* C17: when the model call of a horizon raises, or the model of the horizon
\* was never loaded, the prediction of that horizon is the current occupancy
\* and its bike count round(occupancy * capacity) clamped to [0, capacity];
\* every other horizon holds clip(occupancy + delta, 0, 1) for the delta of
\* its own model; and predict_xgboost returns SUCCESS.
C17_FailedHorizonFallsBack == SomeHorizonRaised => FallbackPerHorizon

\* the fallback does work whenever the current occupancy is finite
FallbackWhenOccupancyFinite ==
    (SomeHorizonRaised /\ IsFinite(OcuActual)) => FallbackPerHorizon

\* horizon 40 has no model, the model of 20 raised, and the model of 60
\* moved the prediction away from the current occupancy
FallbackSeen ==
    /\ SomeHorizonRaised
    /\ FallbackPerHorizon
    /\ 40 \notin xgboost_models
    /\ last.r.preds[20].raised /\ last.r.preds[20].invoked
    /\ ~last.r.preds[60].raised
    /\ last.r.preds[60].bikes # last.r.preds[40].bikes
    /\ last.r.preds[40].bikes > 0

\* load_models has just returned
LoadCalled == last.op = "load"

\* the position of is_holiday in the feature vector
IsHolidayAt == CHOOSE i \in DOMAIN FEATURE_COLS : FEATURE_COLS[i] = "is_holiday"

\* C18: load_models returns true exactly when the artifact of at least one
\* horizon was loaded, whichever of the three table files are missing; the
\* table of a missing file is left empty; and a prediction made with the
\* holiday calendar missing assembles its features with is_holiday = 0.
C18_MissingTablesNeverFailLoad ==
    /\ LoadCalled =>
        /\ last.returned <=> last.loaded # {}
        /\ models_loaded <=> last.returned
        /\ last.returned =>
            /\ ~last.found.holidays_dated => tables.holidays = {}
            /\ last.found.stations_enriched = <<>> =>
                    tables.stations_enriched = <<>>
            /\ last.found.station_activity = <<>> =>
                    tables.station_activity = <<>>
    /\ (/\ XgbCalled
        /\ models_loaded
        /\ last.g.ok
        /\ ~tables.holidays_dated
        /\ NoNaNInput) =>
            /\ last.r.error # "AttributeError"
            /\ last.r.X # <<>>
            /\ last.r.X[IsHolidayAt] = Fin(0)

\* the load half of C18 alone
LoadTrueIffArtifactLoaded ==
    LoadCalled =>
        /\ last.returned <=> last.loaded # {}
        /\ models_loaded <=> last.returned

\* load_models returned true with all three table files missing
LoadedWithoutTables ==
    /\ LoadCalled
    /\ last.returned
    /\ last.found = NoTables
    /\ tables.stations_enriched = <<>>

---------------------------------------------------------------------------
(* GBFSCollector on its own: the per-day files as the lists of rows that   *)
(* _save_snapshot writes.  store maps the date of each existing file to    *)
(* its rows, in the order of the file.                                     *)

\* the list records of _collect_snapshot, in the order of the status feed
SnapshotRecords(info_feed, status_feed, t) ==
    LET stations_info == InfoCacheOf(info_feed)
        listed == SelectSeq(status_feed,
                    LAMBDA st :
                        /\ st.station_id \in DOMAIN stations_info
                        /\ "short_name" \in
                            DOMAIN stations_info[st.station_id])
    IN  [i \in 1..Len(listed) |->
            [t |-> t,
             code |-> stations_info[listed[i].station_id].short_name,
             bikes |-> DictGet(listed[i], "num_bikes_available", 0),
             cap |-> DictGet(stations_info[listed[i].station_id],
                             "capacity", 0)]]

\* the order of two station codes as strings
RECURSIVE CodeBefore(_, _)
CodeBefore(a, b) ==
    IF b = <<>> THEN FALSE
    ELSE IF a = <<>> THEN TRUE
    ELSE IF Head(a) # Head(b) THEN Head(a) < Head(b)
    ELSE CodeBefore(Tail(a), Tail(b))

\* df.sort(["station_code", "snapshot_time"]) of rows with distinct keys
RECURSIVE SortRows(_)
SortRows(rows) ==
    IF rows = {} THEN <<>>
    ELSE LET first == CHOOSE r \in rows : \A q \in rows \ {r} :
                        \/ CodeBefore(r.code, q.code)
                        \/ r.code = q.code /\ r.t < q.t
         IN  <<first>> \o SortRows(rows \ {first})

\* df.unique(subset=["snapshot_time", "station_code"], keep="last") and the
\* sort of line 169
UniqueKeepLast(df) ==
    SortRows({df[i] : i \in {j \in DOMAIN df :
                ~\E k \in DOMAIN df :
                    k > j /\ df[k].t = df[j].t /\ df[k].code = df[j].code}})

\* _save_snapshot of the frame df: the file of the date of its first row is
\* created with df as it is, or rewritten with the deduplicated and sorted
\* concatenation
SaveSnapshotFile(files, df) ==
    LET d == DateOf(df[1].t)
    IN  [x \in (DOMAIN files) \cup {d} |->
            IF x # d THEN files[x]
            ELSE IF d \in DOMAIN files THEN UniqueKeepLast(files[d] \o df)
            ELSE df]

InitSave ==
    /\ clock = StartTime
    /\ phase = "serving"
    /\ xgboost_models = {}
    /\ models_loaded = FALSE
    /\ store = <<>>
    /\ parquet_cache = {}
    /\ saves = 0
    /\ gbfs = NewGbfsService
    /\ wall = 0
    /\ fetched_at = NeverFetched
    /\ raw_snapshots = {}
    /\ tables = NoTables
    /\ scheduler = [running |-> FALSE, jobs |-> {}, done |-> {}]
    /\ gbfs_collector = [enabled |-> TRUE, http_client |-> FALSE]
    /\ feedback_rate_limit = <<>>
    /\ feedback_log = <<>>
    /\ tasks = {}
    /\ statistics = NewStatistics
    /\ history_cache = {}
    /\ last = NoResponse

\* GBFSCollector.collect_snapshot when the first attempt fetches the two
\* feeds: the records are saved, or nothing is when there is no record
CollectSnapshotToFile(info_feed, status_feed) ==
    /\ Idle
    /\ saves < MaxFileSaves
    /\ saves' = saves + 1
    /\ LET df == SnapshotRecords(info_feed, status_feed, clock)
       IN  /\ store' = IF Len(df) = 0 THEN store
                        ELSE SaveSnapshotFile(store, df)
           /\ last' = [op |-> "save", df |-> df, before |-> store]
    /\ UNCHANGED <<raw_snapshots, tables, scheduler, gbfs_collector, aside>>
    /\ UNCHANGED <<clock, phase, xgboost_models, models_loaded, parquet_cache,
                   feed>>

\* the feeds of a collection: those of the requests, and a status feed that
\* lists station a twice
NextSave ==
    \/ Return
    \/ Tick
    \/ \E fi \in InfoFeeds,
          fs \in StatusFeeds \cup
                 {<<StatusRec("a", 0), StatusRec("a", MaxBikes)>>} :
            CollectSnapshotToFile(fi, fs)

SpecSave == InitSave /\ [][NextSave]_vars

---------------------------------------------------------------------------
(* Properties of the snapshot files, checked under SpecSave.               *)

\* a collection has just saved a frame
Saved == last.op = "save" /\ Len(last.df) > 0

\* the file that the last save wrote, and the same file before the save
SavedFile == store[DateOf(last.df[1].t)]
FileBefore ==
    IF DateOf(last.df[1].t) \in DOMAIN last.before
    THEN last.before[DateOf(last.df[1].t)] ELSE <<>>

\* two rows have the same snapshot time and station code
SameKey(r, q) == r.t = q.t /\ r.code = q.code

\* C19: after every save the per-day file holds at most one row for each
\* pair of snapshot time and station code; for a pair of the saved frame
\* that row is the last row of the frame with the pair; and every row that
\* the file held before, with a pair the frame does not have, is still in
\* the file.
C19_OneRowPerKeyLastWins ==
    Saved =>
        /\ \A i, j \in DOMAIN SavedFile :
                SameKey(SavedFile[i], SavedFile[j]) => i = j
        /\ \A i \in DOMAIN last.df :
                (~\E k \in DOMAIN last.df :
                    k > i /\ SameKey(last.df[k], last.df[i])) =>
                        \E n \in DOMAIN SavedFile : SavedFile[n] = last.df[i]
        /\ \A i \in DOMAIN FileBefore :
                (~\E k \in DOMAIN last.df :
                    SameKey(last.df[k], FileBefore[i])) =>
                        \E n \in DOMAIN SavedFile :
                            SavedFile[n] = FileBefore[i]

\* the same for the saves onto an existing file whose rows have distinct
\* pairs
DedupWhenFileExists ==
    (/\ Saved
     /\ FileBefore # <<>>
     /\ \A i, j \in DOMAIN FileBefore :
            SameKey(FileBefore[i], FileBefore[j]) => i = j) =>
        C19_OneRowPerKeyLastWins

\* a save onto an existing file replaced a row and kept another
ReplacedAndKept ==
    /\ Saved
    /\ \E i \in DOMAIN FileBefore, k \in DOMAIN last.df :
            /\ SameKey(FileBefore[i], last.df[k])
            /\ FileBefore[i] # last.df[k]
    /\ \E i \in DOMAIN FileBefore :
            ~\E k \in DOMAIN last.df : SameKey(FileBefore[i], last.df[k])
    /\ C19_OneRowPerKeyLastWins

---------------------------------------------------------------------------
(* The background work of the application: lifespan starts the collector's *)
(* HTTP client and the scheduler, and the scheduler runs its jobs at their *)
(* times of day.  Here the clock is the time of day in steps of half an    *)
(* hour and the wall clock the same time in seconds; at midnight the       *)
(* timestamps of the feed cache move back by one day.                      *)

InitLive ==
    /\ clock \in {30 * k : k \in 0..47}
    /\ phase = "startup"
    /\ xgboost_models = {}
    /\ models_loaded = FALSE
    /\ store = {}
    /\ parquet_cache = {}
    /\ saves = 0
    /\ gbfs = NewGbfsService
    /\ wall = 60 * clock
    /\ fetched_at = NeverFetched
    /\ raw_snapshots = {}
    /\ tables = NoTables
    /\ scheduler = [running |-> FALSE, jobs |-> {}, done |-> {}]
    /\ gbfs_collector \in [enabled : BOOLEAN, http_client : {FALSE}]
    /\ feedback_rate_limit = <<>>
    /\ feedback_log = <<>>
    /\ tasks = {}
    /\ statistics = NewStatistics
    /\ history_cache = {}
    /\ last = NoResponse

\* a cache directory: cache/history/today, cache/history/<date> or
\* cache/averages/<date>
TodayCache == [kind |-> "history", dated |-> FALSE, date |-> 0]
DatedCache(kind, date) == [kind |-> kind, dated |-> TRUE, date |-> date]

\* HistoryService.cleanup_cache on the day today: history/today is removed,
\* then every directory of averages whose name is not today's date, then
\* every directory of history whose name is neither yesterday's date nor
\* "today"
CleanupCache(cache, today) ==
    {d \in cache \ {TodayCache} :
        IF d.kind = "averages" THEN d.date = today
        ELSE d.date = today - 1}

\* the startup half of lifespan: cleanup_cache, load_models,
\* statistics_service.initialize and start_background_flush,
\* gbfs_collector.start() when the collector is enabled (start_raises: the
\* client cannot be built), and start_scheduler, which registers its two
\* cron jobs and starts the scheduler
LifespanStartup(files, found, fails_at, start_raises) ==
    /\ phase = "startup"
    /\ start_raises => gbfs_collector.enabled
    /\ phase' = "serving"
    /\ xgboost_models' = xgboost_models \cup files
    /\ tables' = IF files = {} THEN tables
                 ELSE LoadTables(tables, found, fails_at)
    /\ models_loaded' = LoadedAfter(models_loaded, files, fails_at)
    /\ gbfs_collector' =
        IF gbfs_collector.enabled /\ ~start_raises
        THEN [gbfs_collector EXCEPT !.http_client = TRUE]
        ELSE gbfs_collector
    /\ scheduler' =
        [running |-> TRUE,
         jobs |-> {[id |-> "precalculate_yesterday",
                    func |-> "precalculate_yesterday_data", at |-> 60],
                   [id |-> "precalculate_averages",
                    func |-> "precalculate_averages", at |-> 90]},
         done |-> {}]
    /\ history_cache' = CleanupCache(history_cache, DateOf(clock))
    /\ statistics' = [statistics EXCEPT !.path = TRUE, !.flush_task = TRUE]
    /\ last' = [NoResponse EXCEPT !.op = "lifespan"]
    /\ UNCHANGED <<clock, store, parquet_cache, saves, feed, raw_snapshots,
                   feedback_rate_limit, feedback_log, tasks>>

\* the scheduler runs a job whose time of day has come: both jobs ask
\* gbfs_service.get_all_stations for the stations, which refreshes the feed
\* cache, and catch what it raises; their history files are not part of
\* the model
RunJob(job, info_fetch, status_fetch) ==
    /\ phase = "serving"
    /\ scheduler.running
    /\ job \in scheduler.jobs
    /\ job.at = clock
    /\ job.id \notin scheduler.done
    /\ LET r == RefreshCache(gbfs, wall, info_fetch, status_fetch)
       IN  /\ FetchesOf(r, info_fetch, status_fetch)
           /\ gbfs' = r.g
           /\ fetched_at' = FetchedAtAfter(r, wall)
    /\ scheduler' = [scheduler EXCEPT !.done = @ \cup {job.id}]
    /\ last' = [op |-> "job", func |-> job.func]
    /\ UNCHANGED <<clock, phase, xgboost_models, models_loaded, store,
                   parquet_cache, saves, wall, raw_snapshots, tables,
                   gbfs_collector, aside>>

\* half an hour passes once the jobs of this time of day have run
TickLive ==
    /\ phase = "serving"
    /\ \A job \in scheduler.jobs :
            job.at = clock => job.id \in scheduler.done
    /\ clock' = (clock + 30) % MinutesPerDay
    /\ wall' = 60 * clock'
    /\ LET DayBefore(ts) ==
                IF ts = None \/ clock' > clock THEN ts
                ELSE Fin(Max2(ts.v - 60 * MinutesPerDay,
                              0 - 60 * MinutesPerDay))
       IN  /\ gbfs' = [gbfs EXCEPT !.info_timestamp = DayBefore(@),
                                   !.status_timestamp = DayBefore(@)]
           /\ fetched_at' = [k \in DOMAIN fetched_at |->
                                DayBefore(fetched_at[k])]
    /\ scheduler' = [scheduler EXCEPT !.done = {}]
    /\ last' = NoResponse
    /\ UNCHANGED <<phase, xgboost_models, models_loaded, store,
                   parquet_cache, saves, raw_snapshots, tables,
                   gbfs_collector, aside>>

NextLive ==
    \/ \E files \in {{}, Horizons}, start_raises \in BOOLEAN :
            LifespanStartup(files, NoHolidays, 0, start_raises)
    \/ \E job \in scheduler.jobs, fi \in InfoFetches \cup {NoFetch},
          fs \in StatusFetches \cup {NoFetch} :
            RunJob(job, fi, fs)
    \/ TickLive

\* the event loop finishes the startup, runs the jobs that are due, and
\* time passes
SpecLive ==
    /\ InitLive
    /\ [][NextLive]_vars
    /\ WF_vars(\E files \in {{}, Horizons}, start_raises \in BOOLEAN :
                    LifespanStartup(files, NoHolidays, 0, start_raises))
    /\ WF_vars(\E job \in scheduler.jobs, fi \in InfoFetches \cup {NoFetch},
                  fs \in StatusFetches \cup {NoFetch} :
                    RunJob(job, fi, fs))
    /\ WF_vars(TickLive)

---------------------------------------------------------------------------
(* Properties of the background work, checked under SpecLive.              *)

\* the application has started with the collector enabled
CollectorEnabled == phase = "serving" /\ gbfs_collector.enabled

\* collect_snapshot has just been invoked
Collecting == last.op = "collect"

\* a scheduled job has just run
JobRan == last.op = "job"

\* C20: while the application runs with the collector enabled, a snapshot
\* collection eventually happens, and after every collection another one
\* eventually follows.
C20_CollectsPeriodically == [](CollectorEnabled => <>Collecting)

\* the scheduler does run the jobs that start_scheduler registers, again
\* and again
JobsRunPeriodically == [](phase = "serving" => <>JobRan)

---------------------------------------------------------------------------
(* The order of the checks of predict_xgboost, checked under SpecFeatures. *)

\* lag resolution would not give the last call a lag set
LagsFailed == last.g.code # SUCCESS

\* C24: the terminal failure is the first failing step in the order resolve
\* station, resolve lags, assemble features, models loaded; in particular
\* MODEL_NOT_LOADED is reported only for a request whose lags and features
\* were obtained.
C24_ModelCheckComesLast ==
    XgbCalled =>
        /\ LagsFailed => last.r.code = last.g.code
        /\ last.r.code = MODEL_NOT_LOADED =>
                /\ ~LagsFailed
                /\ \A x \in AssembledInputs : ~IsNaN(x)

\* the order of the code: the models, then the lags, then the features
ModelCheckComesFirst ==
    XgbCalled =>
        /\ ~models_loaded =>
                last.r.code = MODEL_NOT_LOADED /\ ~last.r.exc
        /\ (models_loaded /\ LagsFailed) =>
                last.r.code = last.g.code /\ ~last.r.exc
        /\ last.r.code = INVALID_FEATURES =>
                models_loaded /\ ~LagsFailed

\* MODEL_NOT_LOADED was reported to a request whose lags cannot be resolved
NotLoadedAndNoLags ==
    /\ XgbCalled
    /\ last.r.code = MODEL_NOT_LOADED
    /\ last.g.code = INSUFFICIENT_DATA

---------------------------------------------------------------------------
(* The feedback endpoint: routes.submit_feedback and its rate limiter.     *)
(* Times are whole seconds of time.time(), carried by wall.                *)

FEEDBACK_MAX_REQUESTS == 5
FEEDBACK_WINDOW_SECONDS == 60

\* the requests one behaviour submits
MaxFeedback == 7

\* the instants at which requests arrive
FeedbackTimes == {0, 59, 60}

\* request.client.host, "none" when request.client is None
FeedbackClients == {"a", "none"}

\* feedback_rate_limit[client_ip] of the defaultdict(list)
RateLimitList(limits, client_ip) ==
    IF client_ip \in DOMAIN limits THEN limits[client_ip] ELSE <<>>

\* the request times that the comprehension keeps
RecentRequests(times, current_time) ==
    SelectSeq(times,
              LAMBDA req_time : current_time - req_time
                                    < FEEDBACK_WINDOW_SECONDS)

\* the test that raises HTTPException(429)
RateLimitedAboveMax(recent) == Len(recent) > FEEDBACK_MAX_REQUESTS
RateLimited(recent) == Len(recent) >= FEEDBACK_MAX_REQUESTS

\* submit_feedback, whole: the limiter, then FeedbackService.save_feedback,
\* whose exception the handler turns into a 500 after the request was counted
SubmitFeedback(client, save_raises) ==
    /\ Len(feedback_log) < MaxFeedback
    /\ LET client_ip == IF client = "none" THEN "unknown" ELSE client
           current_time == wall
           recent == RecentRequests(
                        RateLimitList(feedback_rate_limit, client_ip),
                        current_time)
           entries == [ip \in DOMAIN feedback_rate_limit \cup {client_ip} |->
                            IF ip = client_ip THEN recent
                            ELSE feedback_rate_limit[ip]]
       IN  IF RateLimited(recent)
           THEN /\ ~save_raises
                /\ feedback_rate_limit' = entries
                /\ feedback_log' = Append(feedback_log,
                        [ip |-> client_ip, at |-> current_time,
                         status |-> 429, saved |-> FALSE])
           ELSE /\ feedback_rate_limit' =
                        [entries EXCEPT ![client_ip] =
                            Append(recent, current_time)]
                /\ feedback_log' = Append(feedback_log,
                        [ip |-> client_ip, at |-> current_time,
                         status |-> IF save_raises THEN 500 ELSE 200,
                         saved |-> ~save_raises])
    /\ UNCHANGED <<clock, phase, xgboost_models, models_loaded, store,
                   parquet_cache, saves, feed, raw_snapshots, tables,
                   scheduler, gbfs_collector, tasks, disk, last>>

\* time passes between two requests
FeedbackTimePasses ==
    /\ \E t \in FeedbackTimes : t > wall /\ wall' = t
    /\ UNCHANGED <<clock, phase, xgboost_models, models_loaded, store,
                   parquet_cache, saves, gbfs, fetched_at, raw_snapshots,
                   tables, scheduler, gbfs_collector, aside, last>>

InitFeedback ==
    /\ clock = 0
    /\ phase = "serving"
    /\ xgboost_models = {}
    /\ models_loaded = FALSE
    /\ store = {}
    /\ parquet_cache = {}
    /\ saves = 0
    /\ gbfs = NewGbfsService
    /\ wall = 0
    /\ fetched_at = NeverFetched
    /\ raw_snapshots = {}
    /\ tables = NoTables
    /\ scheduler = [running |-> FALSE, jobs |-> {}, done |-> {}]
    /\ gbfs_collector = [enabled |-> TRUE, http_client |-> FALSE]
    /\ feedback_rate_limit = <<>>
    /\ feedback_log = <<>>
    /\ tasks = {}
    /\ statistics = NewStatistics
    /\ history_cache = {}
    /\ last = NoResponse

NextFeedback ==
    \/ \E client \in FeedbackClients, save_raises \in BOOLEAN :
            SubmitFeedback(client, save_raises)
    \/ FeedbackTimePasses

SpecFeedback == InitFeedback /\ [][NextFeedback]_vars

---------------------------------------------------------------------------
(* Properties of the feedback endpoint, checked under SpecFeedback.        *)

\* the request passed the limiter: it was answered 200 or 500
Accepted(i) == feedback_log[i].status # 429

\* the accepted requests of the same client that lie less than the window
\* before request i, request i excluded
AcceptedBefore(i) ==
    {j \in 1..(i - 1) :
        /\ Accepted(j)
        /\ feedback_log[j].ip = feedback_log[i].ip
        /\ feedback_log[i].at - feedback_log[j].at
                < FEEDBACK_WINDOW_SECONDS}

\* C21: for each client IP at most 5 requests are accepted within any
\* 60-second window, and a request that arrives when 5 accepted requests
\* of its IP lie within the preceding 60 seconds is answered 429 and saves
\* no feedback.
C21_AtMostFivePerWindow ==
    \A i \in DOMAIN feedback_log :
        /\ Accepted(i) =>
                Cardinality(AcceptedBefore(i)) < FEEDBACK_MAX_REQUESTS
        /\ Cardinality(AcceptedBefore(i)) >= FEEDBACK_MAX_REQUESTS =>
                /\ feedback_log[i].status = 429
                /\ ~feedback_log[i].saved

\* a client was refused its sixth request and served again once the window
\* had passed
RefusedThenServed ==
    \E i, j \in DOMAIN feedback_log :
        /\ i < j
        /\ feedback_log[i].ip = feedback_log[j].ip
        /\ feedback_log[i].status = 429
        /\ feedback_log[j].status = 200

---------------------------------------------------------------------------
(* Lag resolution while the collector writes: the day's file holds the     *)
(* snapshot of 00:00 of day 1 or does not exist, the collector saves, and  *)
(* _load_gbfs_data is called for station 001 at the time of the clock.     *)

\* 00:00 of day 1
Midnight == MinutesPerDay

InitHistory ==
    /\ clock = Midnight
    /\ phase = "serving"
    /\ xgboost_models = {}
    /\ models_loaded = FALSE
    /\ \E old \in SUBSET {Midnight - ToleranceMin, Midnight} :
            store = {[t |-> t, code |-> LagStation, bikes |-> 0,
                      cap |-> MaxCap] : t \in old}
    /\ parquet_cache = {}
    /\ saves = 0
    /\ gbfs = NewGbfsService
    /\ wall = 0
    /\ fetched_at = NeverFetched
    /\ raw_snapshots = {}
    /\ tables = NoTables
    /\ scheduler = [running |-> FALSE, jobs |-> {}, done |-> {}]
    /\ gbfs_collector = [enabled |-> TRUE, http_client |-> FALSE]
    /\ feedback_rate_limit = <<>>
    /\ feedback_log = <<>>
    /\ tasks = {}
    /\ statistics = NewStatistics
    /\ history_cache = {}
    /\ last = NoResponse

NextHistory ==
    \/ Return
    \/ Tick
    \/ \E fi \in InfoFeeds, fs \in StatusFeeds : CollectSnapshot(fi, fs)
    \/ LoadGbfsDataCall(LagStation, clock)

SpecHistory == InitHistory /\ [][NextHistory]_vars

---------------------------------------------------------------------------
(* Properties of lag resolution over a changing store, checked under       *)
(* SpecHistory.                                                            *)

\* _load_gbfs_data has just returned
LagsResolved == last.op = "load_gbfs"

\* what pd.read_parquet returns for each file now
ReadFiles == [d \in ExistingFiles(store) |-> FileRows(store, d)]

\* the result of the same call made again now
ResolvedAgain ==
    LoadGbfsData(ExistingFiles(store), CachedRead(parquet_cache, store),
                 last.station_code, last.t)

\* C22: lag resolution called again with the same station and the same
\* reference time, the historical store unchanged since the first call,
\* returns the same lag set and the same result code as the first call.
C22_RepeatedResolutionAgrees == LagsResolved => ResolvedAgain = last.result

\* a lag set was resolved, and would be resolved again, from a cached frame
\* that the file no longer equals
RepeatedOnStaleFrame ==
    /\ LagsResolved
    /\ last.result.ok
    /\ \E e \in parquet_cache : e.rows # FileRows(store, e.d)

\* C23: a prediction request made after the collector has appended a
\* snapshot to a day's file resolves its current occupancy and lags against
\* the file's current content, whatever prediction requests came before.
C23_ResolvesAgainstCurrentFile ==
    LagsResolved =>
        last.result = LoadGbfsData(ExistingFiles(store), ReadFiles,
                                   last.station_code, last.t)

---------------------------------------------------------------------------
(* The snapshot that each offset takes, checked under SpecHistory.         *)

\* the rows of the station in the frames that the last call read
FrameRead ==
    {r \in UNION {CachedRead(parquet_cache, store)[d] :
                    d \in {DateOf(last.t), DateOf(last.t) - 1}
                            \cap ExistingFiles(store)} :
        r.code = last.station_code}

\* the rows within 5 minutes of the target time of lag i
Qualifying(i) ==
    {r \in FrameRead :
        Abs(r.t - (last.t - LagMinutes[i])) <= ToleranceMin}

\* the rows of Qualifying(i) that no other one beats in closeness
Nearest(i) ==
    {r \in Qualifying(i) :
        \A q \in Qualifying(i) :
            Abs(r.t - (last.t - LagMinutes[i]))
                <= Abs(q.t - (last.t - LagMinutes[i]))}

\* C30: for each offset the lag value is the occupancy of a snapshot whose
\* time is within 5 minutes, inclusive, of the reference time minus the
\* offset; of several such snapshots one with the smallest absolute time
\* difference is used; an offset without such a snapshot is treated as
\* missing: the lookup fails when it is the current one, and otherwise it is
\* filled as the offset before it.
C30_NearestSnapshotWithinTolerance ==
    (LagsResolved /\ FrameRead # {}) =>
        /\ last.result.ok = (Qualifying(1) # {})
        /\ last.result.ok =>
            \A i \in DOMAIN LagMinutes :
                IF Qualifying(i) # {}
                THEN \E r \in Nearest(i) :
                        last.result.lags[i] = Ocu(r.bikes, r.cap)
                ELSE last.result.lags[i] = last.result.lags[i - 1]

\* two snapshots of different occupancy qualify for the current offset, and
\* the 10-minute offset takes the snapshot exactly 5 minutes from its target
NearerOfTwoTaken ==
    /\ LagsResolved
    /\ last.result.ok
    /\ \E r, q \in Qualifying(1) :
            /\ r.t # q.t
            /\ Ocu(r.bikes, r.cap) # Ocu(q.bikes, q.cap)
    /\ \E r \in Qualifying(2) :
            Abs(r.t - (last.t - LagMinutes[2])) = ToleranceMin
    /\ last.result.lags[1] # last.result.lags[2]

---------------------------------------------------------------------------
(* Concurrent refreshes of the feed caches.  The event loop runs one        *)
(* coroutine at a time; a refresh is suspended only in the await of         *)
(* _fetch_json, so a step is the code from one await to the next.  tasks    *)
(* holds, for each _refresh_cache in flight, the fetch it awaits and the    *)
(* value of now that its refresh function took before the fetch.            *)

\* the requests that refresh at the same time
MaxTasks == 2

\* the instants of the wall clock, in seconds
RaceTimes == {0, 30, 60, 90}

\* the payloads of station_information.json and station_status.json
InfoPayloads ==
    {<<InfoRec("a", <<0, 0, 1>>, MaxCap)>>,
     <<InfoRec("b", <<0, 0, 2>>, MaxCap), InfoRec("c", <<0, 0, 3>>, MaxCap)>>}
StatusPayloads ==
    {<<StatusRec("a", 0)>>, <<StatusRec("b", MaxBikes), StatusRec("c", 0)>>}

\* _refresh_station_status entered by coroutine id at the time of the wall
\* clock, on the caches g: it returns at once or awaits the fetch
EnterStatusRefresh(id, g, others) ==
    IF CacheValid(g.status_timestamp, wall, StationStatusTtlSeconds)
    THEN others
    ELSE others \cup {[id |-> id, await |-> "status", now |-> wall]}

\* _refresh_cache is called: the code up to the first await
StartRefresh(id) ==
    /\ \A t \in tasks : t.id # id
    /\ tasks' =
        IF CacheValid(gbfs.info_timestamp, wall, StationInfoTtlSeconds)
        THEN EnterStatusRefresh(id, gbfs, tasks)
        ELSE tasks \cup {[id |-> id, await |-> "info", now |-> wall]}
    /\ last' = [op |-> "start", id |-> id, raised |-> "", before |-> gbfs]
    /\ UNCHANGED <<clock, phase, xgboost_models, models_loaded, store,
                   parquet_cache, saves, feed, raw_snapshots, tables,
                   scheduler, gbfs_collector, feedback_rate_limit,
                   feedback_log, disk>>

\* the fetch of station_information.json returns to coroutine t: lines
\* 56-73 of _refresh_station_info, then _refresh_station_status up to its
\* await
CompleteInfoFetch(t, fetch) ==
    /\ t \in tasks
    /\ t.await = "info"
    /\ LET r == StoreStationInfo(gbfs, t.now, fetch.stations,
                                 ReadablePrefix(fetch.stations))
       IN  IF fetch.error # ""
           THEN /\ gbfs' = gbfs
                /\ tasks' = tasks \ {t}
                /\ last' = [op |-> "info", id |-> t.id,
                            raised |-> fetch.error, before |-> gbfs]
           ELSE /\ gbfs' = r.g
                /\ tasks' = IF r.raised # "" THEN tasks \ {t}
                            ELSE EnterStatusRefresh(t.id, r.g, tasks \ {t})
                /\ last' = [op |-> "info", id |-> t.id,
                            raised |-> r.raised, before |-> gbfs]
    /\ UNCHANGED <<clock, phase, xgboost_models, models_loaded, store,
                   parquet_cache, saves, wall, fetched_at, raw_snapshots,
                   tables, scheduler, gbfs_collector, feedback_rate_limit,
                   feedback_log, disk>>

\* the fetch of station_status.json returns to coroutine t: lines 87-101 of
\* _refresh_station_status, which ends _refresh_cache
CompleteStatusFetch(t, fetch) ==
    /\ t \in tasks
    /\ t.await = "status"
    /\ LET r == StoreStationStatus(gbfs, t.now, fetch.stations)
       IN  /\ gbfs' = IF fetch.error # "" THEN gbfs ELSE r.g
           /\ last' = [op |-> "status", id |-> t.id,
                       raised |-> IF fetch.error # "" THEN fetch.error
                                  ELSE r.raised,
                       before |-> gbfs]
    /\ tasks' = tasks \ {t}
    /\ UNCHANGED <<clock, phase, xgboost_models, models_loaded, store,
                   parquet_cache, saves, wall, fetched_at, raw_snapshots,
                   tables, scheduler, gbfs_collector, feedback_rate_limit,
                   feedback_log, disk>>

\* time passes while the fetches are awaited
RaceTimePasses ==
    /\ \E t \in RaceTimes : t > wall /\ wall' = t
    /\ UNCHANGED <<clock, phase, xgboost_models, models_loaded, store,
                   parquet_cache, saves, gbfs, fetched_at, raw_snapshots,
                   tables, scheduler, gbfs_collector, aside, last>>

NextRace ==
    \/ \E id \in 1..MaxTasks : StartRefresh(id)
    \/ \E t \in tasks,
          fetch \in {FetchRaises("HTTPError")} \cup
                    {FetchReturns(p) : p \in InfoPayloads} :
            CompleteInfoFetch(t, fetch)
    \/ \E t \in tasks,
          fetch \in {FetchRaises("HTTPError")} \cup
                    {FetchReturns(p) : p \in StatusPayloads} :
            CompleteStatusFetch(t, fetch)
    \/ RaceTimePasses

\* the service is new and no refresh is in flight
InitRace == InitFeedback

SpecRace == InitRace /\ [][NextRace]_vars

---------------------------------------------------------------------------
(* Properties of concurrent refreshes, checked under SpecRace.             *)

\* the caches and the map are those of one payload each, or still empty
\* when no payload was stored
WholeInfoCache ==
    IF gbfs.info_timestamp = None
    THEN gbfs.info_cache = <<>> /\ gbfs.short_name_to_id = <<>>
    ELSE \E p \in InfoPayloads :
            /\ gbfs.info_cache = InfoCacheOf(p)
            /\ gbfs.short_name_to_id = ShortNameMapOf(p)
WholeStatusCache ==
    IF gbfs.status_timestamp = None
    THEN gbfs.status_cache = <<>>
    ELSE \E q \in StatusPayloads : gbfs.status_cache = StatusCacheOf(q)

\* C28: under every interleaving of concurrent refreshes, the information
\* cache, the status cache and the map from short name to station_id are
\* never partially populated at a point where a request can read them, and
\* once the refreshes have finished each equals the result of one complete
\* fetch.
C28_CachesAlwaysWhole == WholeInfoCache /\ WholeStatusCache

\* a second refresh has overwritten the information that a concurrent one
\* had stored, and every refresh has finished
OverwrittenByConcurrentRefresh ==
    /\ tasks = {}
    /\ statistics = NewStatistics
    /\ history_cache = {}
    /\ last.op = "info"
    /\ last.raised = ""
    /\ last.before.info_timestamp # None
    /\ last.before.info_cache # gbfs.info_cache

\* timestamp b is not earlier than timestamp a
NotEarlier(a, b) == a = None \/ (b # None /\ b.v >= a.v)

\* C29: under every interleaving of concurrent refreshes the timestamps of
\* the information cache and of the status cache never decrease, so that
\* cached data is never replaced by the result of a fetch that started
\* before the fetch that produced the data held.
C29_TimestampsNeverDecrease ==
    [][/\ NotEarlier(gbfs.info_timestamp, gbfs'.info_timestamp)
       /\ NotEarlier(gbfs.status_timestamp, gbfs'.status_timestamp)]_vars

---------------------------------------------------------------------------
(* PredictorService.predict as the route calls it: with the lags of         *)
(* LagsService, the holiday flag and the model selector of the request, at  *)
(* noon of day 1 on a store without files or with the current snapshot.     *)

\* what get_lags_for_station can hand to predict
LagInputs ==
    {[i \in DOMAIN LagIntervals |-> v] :
        v \in {None, Fin(0), Fin(MaxBikes)}}

\* ModelType of the request schema
ModelTypes == {"m1", "m2"}

\* the record of get_station_data for the station with n bikes
StationDataOf(n) ==
    [station_code |-> LagStation, station_id |-> "a", capacity |-> MaxCap,
     num_bikes_available |-> n]

InitPredict ==
    /\ clock = Noon
    /\ phase = "startup"
    /\ xgboost_models = {}
    /\ models_loaded = FALSE
    /\ store \in {{}} \cup
                 {NoonFrame(b0, MaxCap, {}, <<>>) : b0 \in {0, MaxBikes}}
    /\ parquet_cache = {}
    /\ saves = 0
    /\ gbfs = NewGbfsService
    /\ wall = 0
    /\ fetched_at = NeverFetched
    /\ raw_snapshots = {}
    /\ tables = NoTables
    /\ scheduler = [running |-> FALSE, jobs |-> {}, done |-> {}]
    /\ gbfs_collector = [enabled |-> TRUE, http_client |-> FALSE]
    /\ feedback_rate_limit = <<>>
    /\ feedback_log = <<>>
    /\ tasks = {}
    /\ statistics = NewStatistics
    /\ history_cache = {}
    /\ last = NoResponse

\* a predict that forgets its regressors
ServiceAfterPredictWithoutModels(models, tbl, loaded) ==
    [models |-> {}, tables |-> tbl, loaded |-> loaded]

\* the regressors, the tables and the flag after predict: predict and
\* predict_xgboost read them and assign none of them
ServiceAfterPredict(models, tbl, loaded) ==
    [models |-> models, tables |-> tbl, loaded |-> loaded]

\* a call of PredictorService.predict at the time of the clock
PredictCall(station_data, weather_data, lags, is_holiday, model_type, out) ==
    /\ Idle
    /\ phase = "serving"
    /\ last' = [op |-> "predict_call", station_data |-> station_data,
                weather_data |-> weather_data, lags |-> lags,
                is_holiday |-> is_holiday, model_type |-> model_type,
                out |-> out, exists |-> ExistingFiles(store),
                read |-> CachedRead(parquet_cache, store),
                result |-> PredictFor(models_loaded, xgboost_models, tables,
                                      ExistingFiles(store),
                                      CachedRead(parquet_cache, store),
                                      station_data, weather_data, lags,
                                      clock, is_holiday, model_type, out)]
    /\ parquet_cache' = IF models_loaded
                        THEN CacheAfterRead(parquet_cache, store, clock)
                        ELSE parquet_cache
    /\ LET after == ServiceAfterPredict(xgboost_models, tables, models_loaded)
       IN  /\ xgboost_models' = after.models
           /\ tables' = after.tables
           /\ models_loaded' = after.loaded
    /\ UNCHANGED <<raw_snapshots, scheduler, gbfs_collector, aside>>
    /\ UNCHANGED <<clock, phase, store, saves, feed>>

NextPredict ==
    \/ Return
    \/ /\ phase = "startup"
       /\ \E files \in {{}, Horizons}, found \in {FullTables, NoHolidays} :
            LoadModels(files, found, 0)
    \/ \E n \in Bikes, w \in Weathers, l \in LagInputs, h \in BOOLEAN,
          m \in ModelTypes, out \in OutcomeChoices(xgboost_models, clock) :
            PredictCall(StationDataOf(n), w, l, h, m, out)

SpecPredict == InitPredict /\ [][NextPredict]_vars

---------------------------------------------------------------------------
(* Properties of predict, checked under SpecPredict.                        *)

\* predict has just returned or raised
PredictCalled == last.op = "predict_call"

\* what the last call gives when its lags, holiday flag and selector are
\* replaced by l, h and m
SamePredictWith(l, h, m) ==
    PredictFor(models_loaded, xgboost_models, tables, last.exists, last.read,
               last.station_data, last.weather_data, l, clock, h, m, last.out)

---------------------------------------------------------------------------
(* The statistics service: requests append their record to the buffer      *)
(* under the buffer lock, the periodic task and the shutdown call flush,   *)
(* and a buffer that has reached its maximum size is flushed by the        *)
(* request that filled it.  A record is [id, date]; id tells the recorded  *)
(* requests apart.  Each coroutine is a task [id, kind, pc, rec, df,       *)
(* raised]; a flush is taken in two steps, the writing of the files and    *)
(* the clearing of the buffer, both under the lock.  last counts the       *)
(* requests and the injected read and write failures.                      *)

StatDates == {1, 2}
MaxRecords == 3
MaxFaults == 1
MaxPending == 2

\* _max_buffer_size, 100 in the source, scaled to the records of the model
MaxBufferSize == 2

NoRecord == [id |-> 0, date |-> 0]

\* df.get_column("date").unique(): the dates of the buffered records
DatesOf(buffer) == {buffer[i].date : i \in DOMAIN buffer}

\* the orders in which unique() may list the dates
Orders(S) ==
    {o \in [1..Cardinality(S) -> S] : \A i, j \in DOMAIN o : o[i] = o[j] => i = j}

\* df.filter(pl.col("date") == date_str)
OfDate(buffer, d) == SelectSeq(buffer, LAMBDA r : r.date = d)

\* one round of the loop of _flush_internal: the records of date d are
\* written after those of the existing file, or alone when there is no
\* file or when reading it raised
WriteDate(files, buffer, d, read_fails) ==
    LET df_date == OfDate(buffer, d)
        written == IF d \in DOMAIN files /\ d \notin read_fails
                   THEN files[d] \o df_date
                   ELSE df_date
    IN  [x \in DOMAIN files \cup {d} |-> IF x = d THEN written ELSE files[x]]

\* the files after the first n rounds of the loop
RECURSIVE WriteDates(_, _, _, _, _)
WriteDates(files, buffer, order, read_fails, n) ==
    IF n = 0 THEN files
    ELSE WriteDate(WriteDates(files, buffer, order, read_fails, n - 1),
                   buffer, order[n], read_fails)

\* asyncio.Lock: the lock is taken only when no coroutine holds it
LockIgnored(st) == TRUE

LockFree(st) == ~st.lock

\* _flush_internal clears the buffer after the loop and keeps it when the
\* loop raised
ClearsBufferAlways(raised) == TRUE

ClearsBuffer(raised) == ~raised

StatTask(id, kind, rec) ==
    [id |-> id, kind |-> kind, pc |-> "lock", rec |-> rec, df |-> <<>>,
     raised |-> FALSE]

\* the middleware calls record for a request of the given date
StartRecord(date) ==
    /\ phase = "serving"
    /\ Cardinality(tasks) < MaxPending
    /\ last.recorded < MaxRecords
    /\ LET id == last.recorded + 1
       IN  /\ tasks' = tasks \cup
                {StatTask(id, "record", [id |-> id, date |-> date])}
           /\ last' = [last EXCEPT !.op = "record", !.recorded = id]
    /\ UNCHANGED <<clock, phase, xgboost_models, models_loaded, store,
                   parquet_cache, saves, feed, raw_snapshots, tables,
                   scheduler, gbfs_collector, feedback_rate_limit,
                   feedback_log, disk>>

\* flush is called: by _periodic_flush after its sleep, or by
\* stop_background_flush
StartFlush ==
    /\ phase = "serving"
    /\ statistics.flush_task
    /\ Cardinality(tasks) < MaxPending
    /\ ~\E t \in tasks : t.kind = "flush"
    /\ tasks' = tasks \cup {StatTask(0, "flush", NoRecord)}
    /\ last' = [last EXCEPT !.op = "flush"]
    /\ UNCHANGED <<clock, phase, xgboost_models, models_loaded, store,
                   parquet_cache, saves, feed, raw_snapshots, tables,
                   scheduler, gbfs_collector, feedback_rate_limit,
                   feedback_log, disk>>

\* async with self._buffer_lock
AcquireBufferLock(t) ==
    /\ t \in tasks
    /\ t.pc = "lock"
    /\ LockFree(statistics)
    /\ statistics' = [statistics EXCEPT !.lock = TRUE]
    /\ tasks' = (tasks \ {t}) \cup
            {[t EXCEPT !.pc = IF t.kind = "record" THEN "append" ELSE "flush"]}
    /\ last' = [last EXCEPT !.op = "locked"]
    /\ UNCHANGED <<clock, phase, xgboost_models, models_loaded, store,
                   parquet_cache, saves, feed, raw_snapshots, tables,
                   scheduler, gbfs_collector, feedback_rate_limit,
                   feedback_log, history_cache>>

\* record, inside the lock: the record is appended, and a buffer that has
\* reached the maximum size is flushed before the lock is released
AppendRecord(t) ==
    /\ t \in tasks
    /\ t.pc = "append"
    /\ LET buffer == Append(statistics.buffer, t.rec)
           full == Len(buffer) >= MaxBufferSize
       IN  /\ statistics' = [statistics EXCEPT !.buffer = buffer,
                                               !.lock = full]
           /\ tasks' = (tasks \ {t}) \cup
                (IF full THEN {[t EXCEPT !.pc = "flush"]} ELSE {})
    /\ last' = [last EXCEPT !.op = "appended"]
    /\ UNCHANGED <<clock, phase, xgboost_models, models_loaded, store,
                   parquet_cache, saves, feed, raw_snapshots, tables,
                   scheduler, gbfs_collector, feedback_rate_limit,
                   feedback_log, history_cache>>

\* _flush_internal up to the clearing of the buffer: nothing to do for an
\* empty buffer; without a path the records are discarded; otherwise the
\* dates are written in the given order, reading raises for the dates of
\* read_fails, and writing raises in round fail_at (0: in none), which ends
\* the flush with the buffer as it is
FlushWrite(t, order, read_fails, fail_at) ==
    /\ t \in tasks
    /\ t.pc = "flush"
    /\ LET buffer == statistics.buffer
           faulty == read_fails # {} \/ fail_at # 0
           raised == fail_at # 0
           rounds == IF raised THEN fail_at - 1 ELSE Len(order)
       IN  IF buffer = <<>>
           THEN /\ order = <<>> /\ read_fails = {} /\ fail_at = 0
                /\ statistics' = [statistics EXCEPT !.lock = FALSE]
                /\ tasks' = tasks \ {t}
                /\ last' = [last EXCEPT !.op = "flush_empty"]
           ELSE IF ~statistics.path
           THEN /\ order = <<>> /\ read_fails = {} /\ fail_at = 0
                /\ statistics' = [statistics EXCEPT !.buffer = <<>>,
                                                    !.lock = FALSE]
                /\ tasks' = tasks \ {t}
                /\ last' = [last EXCEPT !.op = "flush_discarded",
                                        !.df = buffer]
           ELSE /\ order \in Orders(DatesOf(buffer))
                /\ read_fails \subseteq DatesOf(buffer) \cap DOMAIN statistics.files
                /\ fail_at \in 0..Len(order)
                /\ faulty => last.faults < MaxFaults
                /\ IF ClearsBuffer(raised)
                   THEN /\ statistics' =
                            [statistics EXCEPT !.files =
                                WriteDates(@, buffer, order, read_fails, rounds)]
                        /\ tasks' = (tasks \ {t}) \cup
                            {[t EXCEPT !.pc = "clear", !.df = buffer,
                                       !.raised = raised]}
                        /\ last' = [last EXCEPT
                                !.op = "flush_written",
                                !.faults = IF faulty THEN @ + 1 ELSE @,
                                !.lost_read = @ \/ read_fails # {}]
                   ELSE /\ statistics' =
                            [statistics EXCEPT !.files =
                                WriteDates(@, buffer, order, read_fails, rounds),
                                               !.lock = FALSE]
                        /\ tasks' = tasks \ {t}
                        /\ last' = [last EXCEPT
                                !.op = "flush_failed", !.df = buffer,
                                !.faults = @ + 1,
                                !.write_failed = TRUE,
                                !.lost_read = @ \/ read_fails # {}]
    /\ UNCHANGED <<clock, phase, xgboost_models, models_loaded, store,
                   parquet_cache, saves, feed, raw_snapshots, tables,
                   scheduler, gbfs_collector, feedback_rate_limit,
                   feedback_log, history_cache>>

\* self._buffer.clear() after the loop, and the release of the lock
FlushClear(t) ==
    /\ t \in tasks
    /\ t.pc = "clear"
    /\ statistics' = [statistics EXCEPT !.buffer = <<>>, !.lock = FALSE]
    /\ tasks' = tasks \ {t}
    /\ last' = [last EXCEPT
            !.op = IF t.raised THEN "flush_failed" ELSE "flush_done",
            !.df = t.df,
            !.write_failed = @ \/ t.raised]
    /\ UNCHANGED <<clock, phase, xgboost_models, models_loaded, store,
                   parquet_cache, saves, feed, raw_snapshots, tables,
                   scheduler, gbfs_collector, feedback_rate_limit,
                   feedback_log, history_cache>>

\* the service after lifespan has called initialize and
\* start_background_flush, with no request recorded yet
InitStats ==
    /\ clock = 0
    /\ phase = "serving"
    /\ xgboost_models = {}
    /\ models_loaded = FALSE
    /\ store = {}
    /\ parquet_cache = {}
    /\ saves = 0
    /\ gbfs = NewGbfsService
    /\ wall = 0
    /\ fetched_at = NeverFetched
    /\ raw_snapshots = {}
    /\ tables = NoTables
    /\ scheduler = [running |-> FALSE, jobs |-> {}, done |-> {}]
    /\ gbfs_collector = [enabled |-> FALSE, http_client |-> FALSE]
    /\ feedback_rate_limit = <<>>
    /\ feedback_log = <<>>
    /\ tasks = {}
    /\ statistics = [NewStatistics EXCEPT !.path = TRUE, !.flush_task = TRUE]
    /\ history_cache = {}
    /\ last = [op |-> "none", recorded |-> 0, faults |-> 0, df |-> <<>>,
               write_failed |-> FALSE, lost_read |-> FALSE]

NextStats ==
    \/ \E date \in StatDates : StartRecord(date)
    \/ StartFlush
    \/ \E t \in tasks : AcquireBufferLock(t)
    \/ \E t \in tasks : AppendRecord(t)
    \/ \E t \in tasks :
        \E order \in Orders(DatesOf(statistics.buffer)) :
            \E read_fails \in SUBSET StatDates, fail_at \in 0..Len(order) :
                FlushWrite(t, order, read_fails, fail_at)
    \/ \E t \in tasks : FlushClear(t)

SpecStats == InitStats /\ [][NextStats]_vars

\* the records of seq
RecordsOf(seq) == {seq[i] : i \in DOMAIN seq}

\* r is in the file of its date
Stored(r) ==
    /\ r.date \in DOMAIN statistics.files
    /\ r \in RecordsOf(statistics.files[r.date])

\* C32: a flush whose writing failed leaves in the buffer every record the
\* buffer held before it; after a flush that completed without error the
\* buffer is empty and every record it held is in the file of its date.
C32_FlushKeepsOrStores ==
    /\ last.op = "flush_failed" =>
            \A r \in RecordsOf(last.df) : r \in RecordsOf(statistics.buffer)
    /\ last.op = "flush_done" =>
            /\ statistics.buffer = <<>>
            /\ \A r \in RecordsOf(last.df) : Stored(r)

\* a flush failed with records of both dates in the buffer, and the retried
\* flush has stored them
RetriedFlushStored ==
    /\ last.op = "flush_done"
    /\ last.write_failed
    /\ DatesOf(last.df) = StatDates

\* how many times the record of request id is in the files
Occurrences(id) ==
    Cardinality({p \in UNION {{<<d, i>> : i \in DOMAIN statistics.files[d]} :
                                d \in DOMAIN statistics.files} :
                    statistics.files[p[1]][p[2]].id = id})

\* the record of request id has been appended and a flush has cleared it
Flushed(id) ==
    /\ ~\E t \in tasks : t.rec.id = id /\ t.pc \in {"lock", "append"}
    /\ ~\E r \in RecordsOf(statistics.buffer) : r.id = id

\* C33: whatever records, flushes, read and write failures and retried
\* flushes have happened, no recorded request is in the statistics files
\* twice, and a request whose record a flush has cleared from the buffer
\* is in them exactly once.
C33_StoredExactlyOnce ==
    \A id \in 1..last.recorded :
        /\ Occurrences(id) <= 1
        /\ Flushed(id) => Occurrences(id) = 1

\* the two ways the files go wrong: a stored record is gone after the read
\* of its file failed, and a record is stored twice after a retried flush
StoredRecordLost ==
    \E id \in 1..last.recorded : Flushed(id) /\ Occurrences(id) = 0

RecordStoredTwice ==
    \E id \in 1..last.recorded : Occurrences(id) = 2

\* C34: the buffer changes only while the buffer lock is held, and every
\* record that leaves the buffer in a step is in the file of its date when
\* it leaves: a record appended by a request concurrent with a flush is
\* not cleared by that flush.
C34_ClearedRecordsWereWritten ==
    [][/\ statistics'.buffer # statistics.buffer => statistics.lock
       /\ \A r \in RecordsOf(statistics.buffer) :
            r \notin RecordsOf(statistics'.buffer) =>
                /\ r.date \in DOMAIN statistics'.files
                /\ r \in RecordsOf(statistics'.files[r.date])]_vars

\* a request waits for the lock while a flush that has written its files
\* has not yet cleared the buffer
RecordWaitsForFlush ==
    /\ \E t \in tasks : t.kind = "record" /\ t.pc = "lock"
    /\ \E u \in tasks : u.pc = "clear" /\ u.df # <<>>
    /\ statistics.lock

---------------------------------------------------------------------------
(* The retry loop of GBFSCollector.collect_snapshot.  Each attempt has one *)
(* of four outcomes: _collect_snapshot raises, it returns no records, it   *)
(* returns records that _save_snapshot saves, or it returns records and    *)
(* _save_snapshot raises.                                                  *)

MaxRetries == 3

AttemptOutcomes == {"raises", "empty", "rows", "save_raises"}

\* the try block of the loop body covers the collection and the save
CaughtInCollection(outcome) == outcome = "raises"

Caught(outcome) == outcome \in {"raises", "save_raises"}

\* the loop from attempt (counted from 0, as range(max_retries) does):
\* the attempts made, the snapshots saved, and whether an exception left
\* the loop
RECURSIVE CollectAttempts(_, _, _)
CollectAttempts(attempt, max_retries, outcomes) ==
    IF attempt >= max_retries
    THEN [attempts |-> attempt, saved |-> 0, raised |-> FALSE]
    ELSE LET outcome == outcomes[attempt + 1]
             rest == CollectAttempts(attempt + 1, max_retries, outcomes)
         IN  IF outcome = "rows"
             THEN [attempts |-> attempt + 1, saved |-> 1, raised |-> FALSE]
             ELSE IF outcome = "empty" \/ Caught(outcome)
             THEN rest
             ELSE [attempts |-> attempt + 1, saved |-> 0, raised |-> TRUE]

\* collect_snapshot(max_retries) at the time of clock: the records of the
\* attempt that saved, if any, are in the store afterwards
CollectSnapshotCall(max_retries, outcomes, info_feed, status_feed) ==
    /\ Idle
    /\ phase = "serving"
    /\ saves < MaxSaves
    /\ SnapshotRows(info_feed, status_feed, clock) # {}
    /\ LET r == CollectAttempts(0, max_retries, outcomes)
       IN  /\ store' = IF r.saved = 0 THEN store
                        ELSE SaveSnapshot(store, SnapshotRows(info_feed,
                                                    status_feed, clock))
           /\ saves' = saves + r.saved
           /\ last' = [op |-> "collect_snapshot", max_retries |-> max_retries,
                       outcomes |-> outcomes, r |-> r, before |-> store,
                       rows |-> SnapshotRows(info_feed, status_feed, clock)]
    /\ UNCHANGED <<clock, phase, xgboost_models, models_loaded, parquet_cache,
                   feed, raw_snapshots, tables, scheduler, gbfs_collector,
                   aside>>

InitCollect ==
    /\ clock = StartTime
    /\ phase = "serving"
    /\ xgboost_models = {}
    /\ models_loaded = FALSE
    /\ store = {}
    /\ parquet_cache = {}
    /\ saves = 0
    /\ gbfs = NewGbfsService
    /\ wall = 0
    /\ fetched_at = NeverFetched
    /\ raw_snapshots = {}
    /\ tables = NoTables
    /\ scheduler = [running |-> FALSE, jobs |-> {}, done |-> {}]
    /\ gbfs_collector = [enabled |-> TRUE, http_client |-> TRUE]
    /\ feedback_rate_limit = <<>>
    /\ feedback_log = <<>>
    /\ tasks = {}
    /\ statistics = NewStatistics
    /\ history_cache = {}
    /\ last = NoResponse

NextCollect ==
    \/ Return
    \/ Tick
    \/ \E max_retries \in 0..MaxRetries :
        \E outcomes \in [1..max_retries -> AttemptOutcomes] :
            \E fs \in {<<StatusRec("b", 0)>>,
                       <<StatusRec("a", MaxBikes), StatusRec("b", 0)>>} :
                CollectSnapshotCall(
                    max_retries, outcomes,
                    <<InfoRec("a", <<0, 0, 1>>, MaxCap),
                      InfoRec("b", <<0, 0, 2>>, MaxCap)>>, fs)

SpecCollect == InitCollect /\ [][NextCollect]_vars

\* collect_snapshot has just returned or raised
Collected == last.op = "collect_snapshot"

\* the attempts of the last call that returned records and saved them
SavingAttempts ==
    {i \in 1..last.max_retries : last.outcomes[i] = "rows"}

\* C35: collect_snapshot does not raise, makes at most max_retries
\* attempts, stops at the first attempt whose records are saved, and saves
\* at most one snapshot: the store gains the records of that attempt and
\* nothing else.
C35_CollectSnapshotStopsAtFirstSave ==
    Collected =>
        /\ ~last.r.raised
        /\ last.r.attempts <= last.max_retries
        /\ last.r.saved <= 1
        /\ IF SavingAttempts = {}
           THEN /\ last.r.attempts = last.max_retries
                /\ last.r.saved = 0
                /\ store = last.before
           ELSE /\ last.r.attempts \in SavingAttempts
                /\ \A i \in SavingAttempts : last.r.attempts <= i
                /\ last.r.saved = 1
                /\ store = SaveSnapshot(last.before, last.rows)

\* the save of the first attempt raised, the second attempt saved, and the
\* third was not made
SavedOnSecondAttempt ==
    /\ Collected
    /\ last.max_retries = MaxRetries
    /\ last.outcomes[1] = "save_raises"
    /\ last.outcomes[2] = "rows"
    /\ last.r.attempts = 2
    /\ store # last.before

---------------------------------------------------------------------------
(* The temporal features and the trends as functions of their inputs: the  *)
(* clock is any minute of one day (local time), and the occupancies are    *)
(* absent, not a number, or a percentage.                                  *)

\* the state of a service that only computes: everything but the clock
Computing ==
    /\ phase = "serving"
    /\ xgboost_models = {}
    /\ models_loaded = FALSE
    /\ store = {}
    /\ parquet_cache = {}
    /\ saves = 0
    /\ gbfs = NewGbfsService
    /\ wall = 0
    /\ fetched_at = NeverFetched
    /\ raw_snapshots = {}
    /\ tables = NoTables
    /\ scheduler = [running |-> FALSE, jobs |-> {}, done |-> {}]
    /\ gbfs_collector = [enabled |-> FALSE, http_client |-> FALSE]
    /\ feedback_rate_limit = <<>>
    /\ feedback_log = <<>>
    /\ tasks = {}
    /\ statistics = NewStatistics
    /\ history_cache = {}
    /\ last = NoResponse

DayMinutes == {MinutesPerDay + m : m \in 0..(MinutesPerDay - 1)}

InitTime == clock \in DayMinutes /\ Computing

\* _calculate_temporal_features and _is_operating_at_time for the time of
\* the clock
TemporalFeaturesCall(holidays) ==
    /\ Idle
    /\ last' = [op |-> "temporal",
                features |-> CalculateTemporalFeatures(clock, holidays),
                operating |-> IsOperatingAtTime(clock)]
    /\ UNCHANGED <<clock, phase, xgboost_models, models_loaded, store,
                   parquet_cache, saves, feed, raw_snapshots, tables,
                   scheduler, gbfs_collector, aside>>

NextTime ==
    \/ Return
    \/ \E holidays \in {{}, {1}} : TemporalFeaturesCall(holidays)

SpecTime == InitTime /\ [][NextTime]_vars

\* C36: for every hour and minute of the day the operating flag is set
\* exactly when the local time is at or after 05:00 or at or before 00:30,
\* and the flag of _calculate_temporal_features is that of
\* _is_operating_at_time for the same time.
C36_OperatingWindow ==
    last.op = "temporal" =>
        LET minute_of_day == clock % MinutesPerDay
            flag == last.features.is_operating = Fin(1)
        IN  /\ last.features.is_operating \in {Fin(0), Fin(1)}
            /\ flag <=> (minute_of_day >= 5 * 60 \/ minute_of_day <= 30)
            /\ flag <=> last.operating

\* the flag is set at 00:30
OperatingAtHalfPastMidnight ==
    /\ last.op = "temporal"
    /\ HourOf(clock) = 0
    /\ MinuteOf(clock) = 30
    /\ last.features.is_operating = Fin(1)
    /\ last.operating

TrendValues == {None, NaN, Fin(0), Fin(50), Fin(100)}

\* ocu, ocu_lag_1, ocu_lag_2, ocu_lag_6, ocu_lag_12 of every kind, and the
\* two daily lags, which the trends do not use
TrendInputs == {first \o <<None, Fin(0)>> : first \in [1..5 -> TrendValues]}

InitTrends == clock = Noon /\ Computing

\* _calculate_trends(ocu_dict)
TrendsCall(lags) ==
    /\ Idle
    /\ last' = [op |-> "trends", lags |-> lags, r |-> CalculateTrends(lags)]
    /\ UNCHANGED <<clock, phase, xgboost_models, models_loaded, store,
                   parquet_cache, saves, feed, raw_snapshots, tables,
                   scheduler, gbfs_collector, aside>>

NextTrends ==
    \/ Return
    \/ \E lags \in TrendInputs : TrendsCall(lags)

SpecTrends == InitTrends /\ [][NextTrends]_vars

\* C37: the trends are the current occupancy minus the lags of 1, 2, 6 and
\* 12 steps, and the computation fails with INSUFFICIENT_DATA and without
\* trends when the current occupancy or one of those four lags is missing.
C37_TrendsOrInsufficientData ==
    last.op = "trends" =>
        IF \E i \in 1..5 : last.lags[i].k = "none"
        THEN /\ ~last.r.ok
             /\ last.r.code = INSUFFICIENT_DATA
             /\ "trends" \notin DOMAIN last.r
        ELSE /\ last.r.ok
             /\ last.r.code = SUCCESS
             /\ DOMAIN last.r.trends = 1..4
             /\ \A i \in 1..4 :
                    LET ocu == last.lags[1]
                        lag == last.lags[i + 1]
                    IN  IF ocu.k = "fin" /\ lag.k = "fin"
                        THEN last.r.trends[i] = Fin(ocu.v - lag.v)
                        ELSE last.r.trends[i] = NaN

\* only the lag of 12 steps is missing, and the computation failed
FailedOnMissingLag12 ==
    /\ last.op = "trends"
    /\ \A i \in 1..4 : last.lags[i].k = "fin"
    /\ last.lags[1] # last.lags[2]
    /\ last.lags[5] = None
    /\ last.r.code = INSUFFICIENT_DATA

\* C38: once load_models has returned, no step changes the regressors, the
\* holiday calendar, the enrichment table, the activity table or the
\* loaded flag: a prediction request leaves them as they were loaded.
C38_LoadedStateIsFrozen ==
    [][phase = "serving" =>
            UNCHANGED <<xgboost_models, tables, models_loaded>>]_vars

\* a request has been answered by the regressors of a service whose three
\* tables were loaded
PredictedOnLoadedService ==
    /\ PredictCalled
    /\ last.model_type = "m1"
    /\ models_loaded
    /\ xgboost_models = Horizons
    /\ tables = LoadTables(NoTables, FullTables, 0)
    /\ last.result.raised = ""
    /\ last.result.xgb

---------------------------------------------------------------------------
(* load_models as an operation of the service object: besides the call of  *)
(* lifespan, a later call with any artifacts present and any read failing. *)

\* load_models called again on the running service
ReloadModels(files, found, fails_at) ==
    /\ Idle
    /\ phase = "serving"
    /\ xgboost_models' = xgboost_models \cup files
    /\ tables' = IF files = {} THEN tables
                 ELSE LoadTables(tables, found, fails_at)
    /\ models_loaded' = LoadedAfter(models_loaded, files, fails_at)
    /\ last' = [NoResponse EXCEPT
                    !.op = "reload",
                    !.loaded = files,
                    !.found = found,
                    !.fails_at = fails_at,
                    !.returned = IF files = {} \/ fails_at # 0 THEN FALSE
                                 ELSE Cardinality(files) > 0]
    /\ UNCHANGED <<clock, phase, store, parquet_cache, saves, feed,
                   raw_snapshots, scheduler, gbfs_collector, aside>>

NextLoad ==
    \/ Return
    \/ \E files \in SUBSET Horizons, found \in {FullTables, NoHolidays},
          fails_at \in 0..Len(TableNames) :
            \/ LoadModels(files, found, fails_at)
            \/ ReloadModels(files, found, fails_at)
    \/ \E n \in Bikes, w \in Weathers,
          out \in OutcomeChoices(xgboost_models, clock) :
            PredictCall(StationDataOf(n), w,
                        [i \in DOMAIN LagIntervals |-> None], FALSE,
                        "m1", out)

SpecLoad == InitPredict /\ [][NextLoad]_vars

\* C39: whenever is_loaded is true after a step, a regressor is held
\* (is_model_available), and no step, a failing load_models included,
\* makes is_loaded false again.
C39_LoadedImpliesModelAndStays ==
    [][/\ models_loaded' => xgboost_models' # {}
       /\ models_loaded => models_loaded']_vars

\* load_models failed on a service that was loaded, and the service is
\* still loaded
FailedReloadKeepsLoaded ==
    /\ last.op = "reload"
    /\ ~last.returned
    /\ last.fails_at # 0
    /\ models_loaded
    /\ xgboost_models # {}

---------------------------------------------------------------------------
(* The cache directories at startup.  The application ran on earlier days: *)
(* get_yesterday left directories of history dated by the most recent      *)
(* snapshot file before the day it ran, get_today left history/today, and  *)
(* get_average left directories of averages dated by the day it ran.       *)

CacheDirectories ==
    {TodayCache}
    \cup {DatedCache("history", d) : d \in {-3, -2, -1}}
    \cup {DatedCache("averages", d) : d \in {-2, -1, 0}}

InitCleanup ==
    /\ clock \in {0, 30}
    /\ phase = "startup"
    /\ xgboost_models = {}
    /\ models_loaded = FALSE
    /\ store = {}
    /\ parquet_cache = {}
    /\ saves = 0
    /\ gbfs = NewGbfsService
    /\ wall = 60 * clock
    /\ fetched_at = NeverFetched
    /\ raw_snapshots = {}
    /\ tables = NoTables
    /\ scheduler = [running |-> FALSE, jobs |-> {}, done |-> {}]
    /\ gbfs_collector = [enabled |-> FALSE, http_client |-> FALSE]
    /\ feedback_rate_limit = <<>>
    /\ feedback_log = <<>>
    /\ tasks = {}
    /\ statistics = NewStatistics
    /\ history_cache \in SUBSET CacheDirectories
    /\ last = NoResponse

NextCleanup ==
    \/ Return
    \/ \E files \in {{}, Horizons} :
            LifespanStartup(files, FullTables, 0, FALSE)

SpecCleanup == InitCleanup /\ [][NextCleanup]_vars

\* the directories that the documentation of cleanup_cache calls obsolete
Obsolete(d, today) ==
    \/ d = TodayCache
    \/ d.dated /\ d.kind = "averages" /\ d.date < today
    \/ d.dated /\ d.kind = "history" /\ d.date < (today - 1) - 1

\* C40: cleanup_cache, which lifespan runs at startup, removes the today
\* cache of history, every directory of averages dated before today and
\* every directory of history dated before yesterday minus one day, and
\* leaves every other cache directory in place.
C40_CleanupRemovesOnlyObsolete ==
    [][phase = "startup" /\ phase' = "serving" =>
            history_cache' =
                {d \in history_cache : ~Obsolete(d, DateOf(clock))}]_vars

\* the other directories are gone after startup, and what is left is at
\* most the history of yesterday and the averages of today
OnlyYesterdayAndTodayLeft ==
    phase = "serving" =>
        history_cache \subseteq
            {DatedCache("history", DateOf(clock) - 1),
             DatedCache("averages", DateOf(clock))}

====
